---- MODULE Spec2Model ----
(***************************************************************************)
(* Turbine-type resolution engine of json2tab: the matching cascade of     *)
(* TurbineMatcher, the ModelDesignationDeriver, the TurbineTypeManager     *)
(* lookups and the fallback mappers, over a small reference catalog and a  *)
(* bounded universe of turbine records.                                    *)
(*                                                                         *)
(* Conventions.  Python None is the string "None" (what str(None) gives,   *)
(* which is what the lookups compare); a missing or non-positive number is *)
(* 0 (every numeric getter of utils.py treats the two alike); a missing    *)
(* line index is NoneIndex.  Radii are carried doubled, so that            *)
(* get_radius(x) is the integer 2r and "radius < height" reads             *)
(* get_radius(x) < 2 * get_height(x).  Latitudes and longitudes are in     *)
(* hundredths of a degree.  The tuple (designation, flag) that             *)
(* enrich_model_designation returns is carried as its str() text.          *)
(***************************************************************************)
EXTENDS Integers, Sequences, FiniteSets, TLC

None == "None"

\* the "no line index" value (Python None) of by_turbine_type and the cascade
NoneIndex == -2

\* match(): no_match_idx, stored for a record without a matched line index
no_match_idx == -1

(***************************************************************************)
(* String functions of the source, tabulated over the strings the model    *)
(* reaches: each table is the graph of the Python function on that set.    *)
(***************************************************************************)

LowerTable ==
  (   "" :> ""
   @@ "('E82', False)" :> "('e82', false)"
   @@ "('E82', True)" :> "('e82', true)"
   @@ "('Enercon E-82 2.000', False)" :> "('enercon e-82 2.000', false)"
   @@ "('Enercon E-82 2.000', True)" :> "('enercon e-82 2.000', true)"
   @@ "('Enercon E82', False)" :> "('enercon e82', false)"
   @@ "('Enercon E82', True)" :> "('enercon e82', true)"
   @@ "('FO_09001', False)" :> "('fo_09001', false)"
   @@ "('FO_09001', True)" :> "('fo_09001', true)"
   @@ "('T1', False)" :> "('t1', false)"
   @@ "('T1', True)" :> "('t1', true)"
   @@ "('V52', False)" :> "('v52', false)"
   @@ "('V52', True)" :> "('v52', true)"
   @@ "('Vestas E82', False)" :> "('vestas e82', false)"
   @@ "('Vestas E82', True)" :> "('vestas e82', true)"
   @@ "('Vestas T1', False)" :> "('vestas t1', false)"
   @@ "('Vestas T1', True)" :> "('vestas t1', true)"
   @@ "('Vestas V112-3.45', False)" :> "('vestas v112-3.45', false)"
   @@ "('Vestas V112-3.45', True)" :> "('vestas v112-3.45', true)"
   @@ "('Vestas V117-3.45', False)" :> "('vestas v117-3.45', false)"
   @@ "('Vestas V117-3.45', True)" :> "('vestas v117-3.45', true)"
   @@ "('Vestas V52', False)" :> "('vestas v52', false)"
   @@ "('Vestas V52', True)" :> "('vestas v52', true)"
   @@ "('Vestas V80-2.0', False)" :> "('vestas v80-2.0', false)"
   @@ "('Vestas V80-2.0', True)" :> "('vestas v80-2.0', true)"
   @@ "('Vestas V90-3.0', False)" :> "('vestas v90-3.0', false)"
   @@ "('Vestas V90-3.0', True)" :> "('vestas v90-3.0', true)"
   @@ "('Vestas Vestas T1', False)" :> "('vestas vestas t1', false)"
   @@ "('Vestas Vestas T1', True)" :> "('vestas vestas t1', true)"
   @@ "('Vestas Wind E82', False)" :> "('vestas wind e82', false)"
   @@ "('Vestas Wind E82', True)" :> "('vestas wind e82', true)"
   @@ "('Vestas Wind T1', False)" :> "('vestas wind t1', false)"
   @@ "('Vestas Wind T1', True)" :> "('vestas wind t1', true)"
   @@ "('Vestas Wind V52', False)" :> "('vestas wind v52', false)"
   @@ "('Vestas Wind V52', True)" :> "('vestas wind v52', true)"
   @@ "('Vestas Wind Vestas T1', False)" :> "('vestas wind vestas t1', false)"
   @@ "('Vestas Wind Vestas T1', True)" :> "('vestas wind vestas t1', true)"
   @@ "AN-Bonus" :> "an-bonus"
   @@ "Bonus" :> "bonus"
   @@ "E101" :> "e101"
   @@ "E115" :> "e115"
   @@ "E126" :> "e126"
   @@ "E138" :> "e138"
   @@ "E40" :> "e40"
   @@ "E48" :> "e48"
   @@ "E70" :> "e70"
   @@ "E82" :> "e82"
   @@ "E92" :> "e92"
   @@ "Enercon" :> "enercon"
   @@ "Enercon E-82 2.000" :> "enercon e-82 2.000"
   @@ "Enercon E101" :> "enercon e101"
   @@ "Enercon E115" :> "enercon e115"
   @@ "Enercon E126" :> "enercon e126"
   @@ "Enercon E138" :> "enercon e138"
   @@ "Enercon E40" :> "enercon e40"
   @@ "Enercon E48" :> "enercon e48"
   @@ "Enercon E70" :> "enercon e70"
   @@ "Enercon E82" :> "enercon e82"
   @@ "Enercon E92" :> "enercon e92"
   @@ "FO_09001" :> "fo_09001"
   @@ "G58" :> "g58"
   @@ "G80" :> "g80"
   @@ "GE-1.5" :> "ge-1.5"
   @@ "GE-2.5" :> "ge-2.5"
   @@ "GE-3.8" :> "ge-3.8"
   @@ "GE-4.8" :> "ge-4.8"
   @@ "Gamesa" :> "gamesa"
   @@ "Gamesa G58" :> "gamesa g58"
   @@ "Gamesa G80" :> "gamesa g80"
   @@ "General Electric" :> "general electric"
   @@ "General Electric GE-1.5" :> "general electric ge-1.5"
   @@ "General Electric GE-2.5" :> "general electric ge-2.5"
   @@ "General Electric GE-3.8" :> "general electric ge-3.8"
   @@ "General Electric GE-4.8" :> "general electric ge-4.8"
   @@ "MM100" :> "mm100"
   @@ "MM82" :> "mm82"
   @@ "MM92" :> "mm92"
   @@ "N100" :> "n100"
   @@ "N117" :> "n117"
   @@ "N131" :> "n131"
   @@ "N149" :> "n149"
   @@ "N155" :> "n155"
   @@ "N90" :> "n90"
   @@ "NEG" :> "neg"
   @@ "NEG-Micon" :> "neg-micon"
   @@ "None" :> "none"
   @@ "Nordex" :> "nordex"
   @@ "Nordex N100" :> "nordex n100"
   @@ "Nordex N117" :> "nordex n117"
   @@ "Nordex N131" :> "nordex n131"
   @@ "Nordex N149" :> "nordex n149"
   @@ "Nordex N155" :> "nordex n155"
   @@ "Nordex N90" :> "nordex n90"
   @@ "Nordtank" :> "nordtank"
   @@ "REpower" :> "repower"
   @@ "REpower MM100" :> "repower mm100"
   @@ "REpower MM82" :> "repower mm82"
   @@ "REpower MM92" :> "repower mm92"
   @@ "SG-114" :> "sg-114"
   @@ "SG-132" :> "sg-132"
   @@ "SG-145" :> "sg-145"
   @@ "SG-D8" :> "sg-d8"
   @@ "SWT-107" :> "swt-107"
   @@ "SWT-120" :> "swt-120"
   @@ "SWT-130" :> "swt-130"
   @@ "SWT-154" :> "swt-154"
   @@ "Senvion" :> "senvion"
   @@ "Senvion-3M" :> "senvion-3m"
   @@ "Senvion-5M" :> "senvion-5m"
   @@ "Senvion-6M" :> "senvion-6m"
   @@ "Siemens" :> "siemens"
   @@ "Siemens Gamesa" :> "siemens gamesa"
   @@ "Siemens Gamesa SG-114" :> "siemens gamesa sg-114"
   @@ "Siemens Gamesa SG-132" :> "siemens gamesa sg-132"
   @@ "Siemens Gamesa SG-145" :> "siemens gamesa sg-145"
   @@ "Siemens Gamesa SG-D8" :> "siemens gamesa sg-d8"
   @@ "Siemens SWT-107" :> "siemens swt-107"
   @@ "Siemens SWT-120" :> "siemens swt-120"
   @@ "Siemens SWT-130" :> "siemens swt-130"
   @@ "Siemens SWT-154" :> "siemens swt-154"
   @@ "Siemens-D7" :> "siemens-d7"
   @@ "T1" :> "t1"
   @@ "T1?" :> "t1?"
   @@ "T2" :> "t2"
   @@ "T4" :> "t4"
   @@ "T6" :> "t6"
   @@ "T7" :> "t7"
   @@ "T9" :> "t9"
   @@ "Tacke" :> "tacke"
   @@ "V100" :> "v100"
   @@ "V112" :> "v112"
   @@ "V117" :> "v117"
   @@ "V126" :> "v126"
   @@ "V136" :> "v136"
   @@ "V150" :> "v150"
   @@ "V164" :> "v164"
   @@ "V174" :> "v174"
   @@ "V52" :> "v52"
   @@ "V80" :> "v80"
   @@ "V90" :> "v90"
   @@ "Vestas" :> "vestas"
   @@ "Vestas E82" :> "vestas e82"
   @@ "Vestas T1" :> "vestas t1"
   @@ "Vestas V100" :> "vestas v100"
   @@ "Vestas V112" :> "vestas v112"
   @@ "Vestas V112-3.45" :> "vestas v112-3.45"
   @@ "Vestas V117" :> "vestas v117"
   @@ "Vestas V117-3.45" :> "vestas v117-3.45"
   @@ "Vestas V126" :> "vestas v126"
   @@ "Vestas V136" :> "vestas v136"
   @@ "Vestas V150" :> "vestas v150"
   @@ "Vestas V164" :> "vestas v164"
   @@ "Vestas V174" :> "vestas v174"
   @@ "Vestas V52" :> "vestas v52"
   @@ "Vestas V80" :> "vestas v80"
   @@ "Vestas V80-2.0" :> "vestas v80-2.0"
   @@ "Vestas V90" :> "vestas v90"
   @@ "Vestas V90-3.0" :> "vestas v90-3.0"
   @@ "Vestas Vestas T1" :> "vestas vestas t1"
   @@ "Vestas Wind" :> "vestas wind"
   @@ "Vestas Wind E82" :> "vestas wind e82"
   @@ "Vestas Wind Systems" :> "vestas wind systems"
   @@ "Vestas Wind T1" :> "vestas wind t1"
   @@ "Vestas Wind V52" :> "vestas wind v52"
   @@ "Vestas Wind Vestas T1" :> "vestas wind vestas t1" )

StripTable ==
  (   "E82" :> "E82"
   @@ "T1" :> "T1"
   @@ "T1?" :> "T1"
   @@ "V52" :> "V52"
   @@ "Vestas" :> "Vestas"
   @@ "Vestas T1" :> "Vestas T1"
   @@ "Vestas Wind Systems" :> "Vestas Wind Systems" )

ManCodeTable ==
  (   "Vestas" :> "Vestas"
   @@ "Vestas Wind Systems" :> "Vestas Wind" )

PrefixTable ==
  (   "" :> ""
   @@ "('E82', False)" :> "('E82', False)"
   @@ "('E82', True)" :> "('E82', True)"
   @@ "('Enercon E-82 2.000', False)" :> "('Enercon E-82 2.000', False)"
   @@ "('Enercon E-82 2.000', True)" :> "('Enercon E-82 2.000', True)"
   @@ "('Enercon E82', False)" :> "('Enercon E82', False)"
   @@ "('Enercon E82', True)" :> "('Enercon E82', True)"
   @@ "('FO_09001', False)" :> "('FO_09001', False)"
   @@ "('FO_09001', True)" :> "('FO_09001', True)"
   @@ "('T1', False)" :> "('T1', False)"
   @@ "('T1', True)" :> "('T1', True)"
   @@ "('V52', False)" :> "('V52', False)"
   @@ "('V52', True)" :> "('V52', True)"
   @@ "('Vestas E82', False)" :> "('Vestas E82', False)"
   @@ "('Vestas E82', True)" :> "('Vestas E82', True)"
   @@ "('Vestas T1', False)" :> "('Vestas T1', False)"
   @@ "('Vestas T1', True)" :> "('Vestas T1', True)"
   @@ "('Vestas V112-3.45', False)" :> "('Vestas V112-3.45', False)"
   @@ "('Vestas V112-3.45', True)" :> "('Vestas V112-3.45', True)"
   @@ "('Vestas V117-3.45', False)" :> "('Vestas V117-3.45', False)"
   @@ "('Vestas V117-3.45', True)" :> "('Vestas V117-3.45', True)"
   @@ "('Vestas V52', False)" :> "('Vestas V52', False)"
   @@ "('Vestas V52', True)" :> "('Vestas V52', True)"
   @@ "('Vestas V80-2.0', False)" :> "('Vestas V80-2.0', False)"
   @@ "('Vestas V80-2.0', True)" :> "('Vestas V80-2.0', True)"
   @@ "('Vestas V90-3.0', False)" :> "('Vestas V90-3.0', False)"
   @@ "('Vestas V90-3.0', True)" :> "('Vestas V90-3.0', True)"
   @@ "('Vestas Vestas T1', False)" :> "('Vestas Vestas T1', False)"
   @@ "('Vestas Vestas T1', True)" :> "('Vestas Vestas T1', True)"
   @@ "('Vestas Wind E82', False)" :> "('Vestas Wind E82', False)"
   @@ "('Vestas Wind E82', True)" :> "('Vestas Wind E82', True)"
   @@ "('Vestas Wind T1', False)" :> "('Vestas Wind T1', False)"
   @@ "('Vestas Wind T1', True)" :> "('Vestas Wind T1', True)"
   @@ "('Vestas Wind V52', False)" :> "('Vestas Wind V52', False)"
   @@ "('Vestas Wind V52', True)" :> "('Vestas Wind V52', True)"
   @@ "('Vestas Wind Vestas T1', False)" :> "('Vestas Wind Vestas T1', False)"
   @@ "('Vestas Wind Vestas T1', True)" :> "('Vestas Wind Vestas T1', True)"
   @@ "AN-Bonus" :> "AN-Bonus"
   @@ "Bonus" :> "Bonus"
   @@ "E101" :> "Enercon E101"
   @@ "E115" :> "Enercon E115"
   @@ "E126" :> "Enercon E126"
   @@ "E138" :> "Enercon E138"
   @@ "E40" :> "Enercon E40"
   @@ "E48" :> "Enercon E48"
   @@ "E70" :> "Enercon E70"
   @@ "E82" :> "Enercon E82"
   @@ "E92" :> "Enercon E92"
   @@ "Enercon" :> "Enercon"
   @@ "Enercon E-82 2.000" :> "Enercon E-82 2.000"
   @@ "Enercon E101" :> "Enercon E101"
   @@ "Enercon E115" :> "Enercon E115"
   @@ "Enercon E126" :> "Enercon E126"
   @@ "Enercon E138" :> "Enercon E138"
   @@ "Enercon E40" :> "Enercon E40"
   @@ "Enercon E48" :> "Enercon E48"
   @@ "Enercon E70" :> "Enercon E70"
   @@ "Enercon E82" :> "Enercon E82"
   @@ "Enercon E92" :> "Enercon E92"
   @@ "FO_09001" :> "FO_09001"
   @@ "G58" :> "Gamesa G58"
   @@ "G80" :> "Gamesa G80"
   @@ "GE-1.5" :> "General Electric GE-1.5"
   @@ "GE-2.5" :> "General Electric GE-2.5"
   @@ "GE-3.8" :> "General Electric GE-3.8"
   @@ "GE-4.8" :> "General Electric GE-4.8"
   @@ "Gamesa" :> "Gamesa"
   @@ "Gamesa G58" :> "Gamesa G58"
   @@ "Gamesa G80" :> "Gamesa G80"
   @@ "General Electric" :> "General Electric"
   @@ "General Electric GE-1.5" :> "General Electric GE-1.5"
   @@ "General Electric GE-2.5" :> "General Electric GE-2.5"
   @@ "General Electric GE-3.8" :> "General Electric GE-3.8"
   @@ "General Electric GE-4.8" :> "General Electric GE-4.8"
   @@ "MM100" :> "REpower MM100"
   @@ "MM82" :> "REpower MM82"
   @@ "MM92" :> "REpower MM92"
   @@ "N100" :> "Nordex N100"
   @@ "N117" :> "Nordex N117"
   @@ "N131" :> "Nordex N131"
   @@ "N149" :> "Nordex N149"
   @@ "N155" :> "Nordex N155"
   @@ "N90" :> "Nordex N90"
   @@ "NEG" :> "NEG"
   @@ "NEG-Micon" :> "NEG-Micon"
   @@ "None" :> "None"
   @@ "Nordex" :> "Nordex"
   @@ "Nordex N100" :> "Nordex N100"
   @@ "Nordex N117" :> "Nordex N117"
   @@ "Nordex N131" :> "Nordex N131"
   @@ "Nordex N149" :> "Nordex N149"
   @@ "Nordex N155" :> "Nordex N155"
   @@ "Nordex N90" :> "Nordex N90"
   @@ "Nordtank" :> "Nordtank"
   @@ "REpower" :> "REpower"
   @@ "REpower MM100" :> "REpower MM100"
   @@ "REpower MM82" :> "REpower MM82"
   @@ "REpower MM92" :> "REpower MM92"
   @@ "SG-114" :> "Siemens Gamesa SG-114"
   @@ "SG-132" :> "Siemens Gamesa SG-132"
   @@ "SG-145" :> "Siemens Gamesa SG-145"
   @@ "SG-D8" :> "Siemens Gamesa SG-D8"
   @@ "SWT-107" :> "Siemens SWT-107"
   @@ "SWT-120" :> "Siemens SWT-120"
   @@ "SWT-130" :> "Siemens SWT-130"
   @@ "SWT-154" :> "Siemens SWT-154"
   @@ "Senvion" :> "Senvion"
   @@ "Senvion-3M" :> "Senvion-3M"
   @@ "Senvion-5M" :> "Senvion-5M"
   @@ "Senvion-6M" :> "Senvion-6M"
   @@ "Siemens" :> "Siemens"
   @@ "Siemens Gamesa" :> "Siemens Gamesa"
   @@ "Siemens Gamesa SG-114" :> "Siemens Gamesa SG-114"
   @@ "Siemens Gamesa SG-132" :> "Siemens Gamesa SG-132"
   @@ "Siemens Gamesa SG-145" :> "Siemens Gamesa SG-145"
   @@ "Siemens Gamesa SG-D8" :> "Siemens Gamesa SG-D8"
   @@ "Siemens SWT-107" :> "Siemens SWT-107"
   @@ "Siemens SWT-120" :> "Siemens SWT-120"
   @@ "Siemens SWT-130" :> "Siemens SWT-130"
   @@ "Siemens SWT-154" :> "Siemens SWT-154"
   @@ "Siemens-D7" :> "Siemens-D7"
   @@ "T1" :> "T1"
   @@ "T1?" :> "T1?"
   @@ "T2" :> "T2"
   @@ "T4" :> "T4"
   @@ "T6" :> "T6"
   @@ "T7" :> "T7"
   @@ "T9" :> "T9"
   @@ "Tacke" :> "Tacke"
   @@ "V100" :> "Vestas V100"
   @@ "V112" :> "Vestas V112"
   @@ "V117" :> "Vestas V117"
   @@ "V126" :> "Vestas V126"
   @@ "V136" :> "Vestas V136"
   @@ "V150" :> "Vestas V150"
   @@ "V164" :> "Vestas V164"
   @@ "V174" :> "Vestas V174"
   @@ "V52" :> "Vestas V52"
   @@ "V80" :> "Vestas V80"
   @@ "V90" :> "Vestas V90"
   @@ "Vestas" :> "Vestas"
   @@ "Vestas E82" :> "Vestas E82"
   @@ "Vestas T1" :> "Vestas T1"
   @@ "Vestas V100" :> "Vestas V100"
   @@ "Vestas V112" :> "Vestas V112"
   @@ "Vestas V112-3.45" :> "Vestas V112-3.45"
   @@ "Vestas V117" :> "Vestas V117"
   @@ "Vestas V117-3.45" :> "Vestas V117-3.45"
   @@ "Vestas V126" :> "Vestas V126"
   @@ "Vestas V136" :> "Vestas V136"
   @@ "Vestas V150" :> "Vestas V150"
   @@ "Vestas V164" :> "Vestas V164"
   @@ "Vestas V174" :> "Vestas V174"
   @@ "Vestas V52" :> "Vestas V52"
   @@ "Vestas V80" :> "Vestas V80"
   @@ "Vestas V80-2.0" :> "Vestas V80-2.0"
   @@ "Vestas V90" :> "Vestas V90"
   @@ "Vestas V90-3.0" :> "Vestas V90-3.0"
   @@ "Vestas Vestas T1" :> "Vestas Vestas T1"
   @@ "Vestas Wind" :> "Vestas Wind"
   @@ "Vestas Wind E82" :> "Vestas Wind E82"
   @@ "Vestas Wind Systems" :> "Vestas Wind Systems"
   @@ "Vestas Wind T1" :> "Vestas Wind T1"
   @@ "Vestas Wind V52" :> "Vestas Wind V52"
   @@ "Vestas Wind Vestas T1" :> "Vestas Wind Vestas T1" )

ParseTable ==
  (   "" :> [model_designation |-> "None", manufacturer |-> "None", manufacturer_pattern |-> "None", diameter |-> 0, power |-> 0, is_known_manufacturer |-> FALSE]
   @@ "('E82', False)" :> [model_designation |-> "None", manufacturer |-> "None", manufacturer_pattern |-> "None", diameter |-> 0, power |-> 0, is_known_manufacturer |-> FALSE]
   @@ "('E82', True)" :> [model_designation |-> "None", manufacturer |-> "None", manufacturer_pattern |-> "None", diameter |-> 0, power |-> 0, is_known_manufacturer |-> FALSE]
   @@ "('Enercon E-82 2.000', False)" :> [model_designation |-> "None", manufacturer |-> "None", manufacturer_pattern |-> "None", diameter |-> 0, power |-> 0, is_known_manufacturer |-> FALSE]
   @@ "('Enercon E-82 2.000', True)" :> [model_designation |-> "None", manufacturer |-> "None", manufacturer_pattern |-> "None", diameter |-> 0, power |-> 0, is_known_manufacturer |-> FALSE]
   @@ "('Enercon E82', False)" :> [model_designation |-> "None", manufacturer |-> "None", manufacturer_pattern |-> "None", diameter |-> 0, power |-> 0, is_known_manufacturer |-> FALSE]
   @@ "('Enercon E82', True)" :> [model_designation |-> "None", manufacturer |-> "None", manufacturer_pattern |-> "None", diameter |-> 0, power |-> 0, is_known_manufacturer |-> FALSE]
   @@ "('FO_09001', False)" :> [model_designation |-> "None", manufacturer |-> "None", manufacturer_pattern |-> "None", diameter |-> 0, power |-> 0, is_known_manufacturer |-> FALSE]
   @@ "('FO_09001', True)" :> [model_designation |-> "None", manufacturer |-> "None", manufacturer_pattern |-> "None", diameter |-> 0, power |-> 0, is_known_manufacturer |-> FALSE]
   @@ "('T1', False)" :> [model_designation |-> "None", manufacturer |-> "None", manufacturer_pattern |-> "None", diameter |-> 0, power |-> 0, is_known_manufacturer |-> FALSE]
   @@ "('T1', True)" :> [model_designation |-> "None", manufacturer |-> "None", manufacturer_pattern |-> "None", diameter |-> 0, power |-> 0, is_known_manufacturer |-> FALSE]
   @@ "('V52', False)" :> [model_designation |-> "None", manufacturer |-> "None", manufacturer_pattern |-> "None", diameter |-> 0, power |-> 0, is_known_manufacturer |-> FALSE]
   @@ "('V52', True)" :> [model_designation |-> "None", manufacturer |-> "None", manufacturer_pattern |-> "None", diameter |-> 0, power |-> 0, is_known_manufacturer |-> FALSE]
   @@ "('Vestas E82', False)" :> [model_designation |-> "None", manufacturer |-> "None", manufacturer_pattern |-> "None", diameter |-> 0, power |-> 0, is_known_manufacturer |-> FALSE]
   @@ "('Vestas E82', True)" :> [model_designation |-> "None", manufacturer |-> "None", manufacturer_pattern |-> "None", diameter |-> 0, power |-> 0, is_known_manufacturer |-> FALSE]
   @@ "('Vestas T1', False)" :> [model_designation |-> "None", manufacturer |-> "None", manufacturer_pattern |-> "None", diameter |-> 0, power |-> 0, is_known_manufacturer |-> FALSE]
   @@ "('Vestas T1', True)" :> [model_designation |-> "None", manufacturer |-> "None", manufacturer_pattern |-> "None", diameter |-> 0, power |-> 0, is_known_manufacturer |-> FALSE]
   @@ "('Vestas V112-3.45', False)" :> [model_designation |-> "None", manufacturer |-> "None", manufacturer_pattern |-> "None", diameter |-> 0, power |-> 0, is_known_manufacturer |-> FALSE]
   @@ "('Vestas V112-3.45', True)" :> [model_designation |-> "None", manufacturer |-> "None", manufacturer_pattern |-> "None", diameter |-> 0, power |-> 0, is_known_manufacturer |-> FALSE]
   @@ "('Vestas V117-3.45', False)" :> [model_designation |-> "None", manufacturer |-> "None", manufacturer_pattern |-> "None", diameter |-> 0, power |-> 0, is_known_manufacturer |-> FALSE]
   @@ "('Vestas V117-3.45', True)" :> [model_designation |-> "None", manufacturer |-> "None", manufacturer_pattern |-> "None", diameter |-> 0, power |-> 0, is_known_manufacturer |-> FALSE]
   @@ "('Vestas V52', False)" :> [model_designation |-> "None", manufacturer |-> "None", manufacturer_pattern |-> "None", diameter |-> 0, power |-> 0, is_known_manufacturer |-> FALSE]
   @@ "('Vestas V52', True)" :> [model_designation |-> "None", manufacturer |-> "None", manufacturer_pattern |-> "None", diameter |-> 0, power |-> 0, is_known_manufacturer |-> FALSE]
   @@ "('Vestas V80-2.0', False)" :> [model_designation |-> "None", manufacturer |-> "None", manufacturer_pattern |-> "None", diameter |-> 0, power |-> 0, is_known_manufacturer |-> FALSE]
   @@ "('Vestas V80-2.0', True)" :> [model_designation |-> "None", manufacturer |-> "None", manufacturer_pattern |-> "None", diameter |-> 0, power |-> 0, is_known_manufacturer |-> FALSE]
   @@ "('Vestas V90-3.0', False)" :> [model_designation |-> "None", manufacturer |-> "None", manufacturer_pattern |-> "None", diameter |-> 0, power |-> 0, is_known_manufacturer |-> FALSE]
   @@ "('Vestas V90-3.0', True)" :> [model_designation |-> "None", manufacturer |-> "None", manufacturer_pattern |-> "None", diameter |-> 0, power |-> 0, is_known_manufacturer |-> FALSE]
   @@ "('Vestas Vestas T1', False)" :> [model_designation |-> "None", manufacturer |-> "None", manufacturer_pattern |-> "None", diameter |-> 0, power |-> 0, is_known_manufacturer |-> FALSE]
   @@ "('Vestas Vestas T1', True)" :> [model_designation |-> "None", manufacturer |-> "None", manufacturer_pattern |-> "None", diameter |-> 0, power |-> 0, is_known_manufacturer |-> FALSE]
   @@ "('Vestas Wind E82', False)" :> [model_designation |-> "None", manufacturer |-> "None", manufacturer_pattern |-> "None", diameter |-> 0, power |-> 0, is_known_manufacturer |-> FALSE]
   @@ "('Vestas Wind E82', True)" :> [model_designation |-> "None", manufacturer |-> "None", manufacturer_pattern |-> "None", diameter |-> 0, power |-> 0, is_known_manufacturer |-> FALSE]
   @@ "('Vestas Wind T1', False)" :> [model_designation |-> "None", manufacturer |-> "None", manufacturer_pattern |-> "None", diameter |-> 0, power |-> 0, is_known_manufacturer |-> FALSE]
   @@ "('Vestas Wind T1', True)" :> [model_designation |-> "None", manufacturer |-> "None", manufacturer_pattern |-> "None", diameter |-> 0, power |-> 0, is_known_manufacturer |-> FALSE]
   @@ "('Vestas Wind V52', False)" :> [model_designation |-> "None", manufacturer |-> "None", manufacturer_pattern |-> "None", diameter |-> 0, power |-> 0, is_known_manufacturer |-> FALSE]
   @@ "('Vestas Wind V52', True)" :> [model_designation |-> "None", manufacturer |-> "None", manufacturer_pattern |-> "None", diameter |-> 0, power |-> 0, is_known_manufacturer |-> FALSE]
   @@ "('Vestas Wind Vestas T1', False)" :> [model_designation |-> "None", manufacturer |-> "None", manufacturer_pattern |-> "None", diameter |-> 0, power |-> 0, is_known_manufacturer |-> FALSE]
   @@ "('Vestas Wind Vestas T1', True)" :> [model_designation |-> "None", manufacturer |-> "None", manufacturer_pattern |-> "None", diameter |-> 0, power |-> 0, is_known_manufacturer |-> FALSE]
   @@ "AN-Bonus" :> [model_designation |-> "None", manufacturer |-> "None", manufacturer_pattern |-> "None", diameter |-> 0, power |-> 0, is_known_manufacturer |-> FALSE]
   @@ "Bonus" :> [model_designation |-> "None", manufacturer |-> "None", manufacturer_pattern |-> "None", diameter |-> 0, power |-> 0, is_known_manufacturer |-> FALSE]
   @@ "E101" :> [model_designation |-> "Enercon E101", manufacturer |-> "Enercon", manufacturer_pattern |-> "(?P<manufacturer>Enercon)", diameter |-> 101, power |-> 0, is_known_manufacturer |-> TRUE]
   @@ "E115" :> [model_designation |-> "Enercon E115", manufacturer |-> "Enercon", manufacturer_pattern |-> "(?P<manufacturer>Enercon)", diameter |-> 115, power |-> 0, is_known_manufacturer |-> TRUE]
   @@ "E126" :> [model_designation |-> "Enercon E126", manufacturer |-> "Enercon", manufacturer_pattern |-> "(?P<manufacturer>Enercon)", diameter |-> 126, power |-> 0, is_known_manufacturer |-> TRUE]
   @@ "E138" :> [model_designation |-> "Enercon E138", manufacturer |-> "Enercon", manufacturer_pattern |-> "(?P<manufacturer>Enercon)", diameter |-> 138, power |-> 0, is_known_manufacturer |-> TRUE]
   @@ "E40" :> [model_designation |-> "Enercon E40", manufacturer |-> "Enercon", manufacturer_pattern |-> "(?P<manufacturer>Enercon)", diameter |-> 40, power |-> 0, is_known_manufacturer |-> TRUE]
   @@ "E48" :> [model_designation |-> "Enercon E48", manufacturer |-> "Enercon", manufacturer_pattern |-> "(?P<manufacturer>Enercon)", diameter |-> 48, power |-> 0, is_known_manufacturer |-> TRUE]
   @@ "E70" :> [model_designation |-> "Enercon E70", manufacturer |-> "Enercon", manufacturer_pattern |-> "(?P<manufacturer>Enercon)", diameter |-> 70, power |-> 0, is_known_manufacturer |-> TRUE]
   @@ "E82" :> [model_designation |-> "Enercon E82", manufacturer |-> "Enercon", manufacturer_pattern |-> "(?P<manufacturer>Enercon)", diameter |-> 82, power |-> 0, is_known_manufacturer |-> TRUE]
   @@ "E92" :> [model_designation |-> "Enercon E92", manufacturer |-> "Enercon", manufacturer_pattern |-> "(?P<manufacturer>Enercon)", diameter |-> 92, power |-> 0, is_known_manufacturer |-> TRUE]
   @@ "Enercon" :> [model_designation |-> "None", manufacturer |-> "None", manufacturer_pattern |-> "None", diameter |-> 0, power |-> 0, is_known_manufacturer |-> FALSE]
   @@ "Enercon E-82 2.000" :> [model_designation |-> "Enercon E-82 2.000", manufacturer |-> "Enercon", manufacturer_pattern |-> "(?P<manufacturer>Enercon)", diameter |-> 82, power |-> 2000, is_known_manufacturer |-> TRUE]
   @@ "Enercon E101" :> [model_designation |-> "Enercon E101", manufacturer |-> "Enercon", manufacturer_pattern |-> "(?P<manufacturer>Enercon)", diameter |-> 101, power |-> 0, is_known_manufacturer |-> TRUE]
   @@ "Enercon E115" :> [model_designation |-> "Enercon E115", manufacturer |-> "Enercon", manufacturer_pattern |-> "(?P<manufacturer>Enercon)", diameter |-> 115, power |-> 0, is_known_manufacturer |-> TRUE]
   @@ "Enercon E126" :> [model_designation |-> "Enercon E126", manufacturer |-> "Enercon", manufacturer_pattern |-> "(?P<manufacturer>Enercon)", diameter |-> 126, power |-> 0, is_known_manufacturer |-> TRUE]
   @@ "Enercon E138" :> [model_designation |-> "Enercon E138", manufacturer |-> "Enercon", manufacturer_pattern |-> "(?P<manufacturer>Enercon)", diameter |-> 138, power |-> 0, is_known_manufacturer |-> TRUE]
   @@ "Enercon E40" :> [model_designation |-> "Enercon E40", manufacturer |-> "Enercon", manufacturer_pattern |-> "(?P<manufacturer>Enercon)", diameter |-> 40, power |-> 0, is_known_manufacturer |-> TRUE]
   @@ "Enercon E48" :> [model_designation |-> "Enercon E48", manufacturer |-> "Enercon", manufacturer_pattern |-> "(?P<manufacturer>Enercon)", diameter |-> 48, power |-> 0, is_known_manufacturer |-> TRUE]
   @@ "Enercon E70" :> [model_designation |-> "Enercon E70", manufacturer |-> "Enercon", manufacturer_pattern |-> "(?P<manufacturer>Enercon)", diameter |-> 70, power |-> 0, is_known_manufacturer |-> TRUE]
   @@ "Enercon E82" :> [model_designation |-> "Enercon E82", manufacturer |-> "Enercon", manufacturer_pattern |-> "(?P<manufacturer>Enercon)", diameter |-> 82, power |-> 0, is_known_manufacturer |-> TRUE]
   @@ "Enercon E92" :> [model_designation |-> "Enercon E92", manufacturer |-> "Enercon", manufacturer_pattern |-> "(?P<manufacturer>Enercon)", diameter |-> 92, power |-> 0, is_known_manufacturer |-> TRUE]
   @@ "FO_09001" :> [model_designation |-> "FO_09001", manufacturer |-> "Vestas", manufacturer_pattern |-> "None", diameter |-> 90, power |-> 0, is_known_manufacturer |-> FALSE]
   @@ "G58" :> [model_designation |-> "Gamesa G58", manufacturer |-> "Gamesa", manufacturer_pattern |-> "(?P<manufacturer>Gamesa|Bonus)", diameter |-> 58, power |-> 0, is_known_manufacturer |-> TRUE]
   @@ "G80" :> [model_designation |-> "Gamesa G80", manufacturer |-> "Gamesa", manufacturer_pattern |-> "(?P<manufacturer>Gamesa|Bonus)", diameter |-> 80, power |-> 0, is_known_manufacturer |-> TRUE]
   @@ "GE-1.5" :> [model_designation |-> "General Electric GE-1.5", manufacturer |-> "General Electric", manufacturer_pattern |-> "(?P<manufacturer>(GE General Electric)|(General Electric)|GE|Enron|Cypress)", diameter |-> 0, power |-> 1500, is_known_manufacturer |-> TRUE]
   @@ "GE-2.5" :> [model_designation |-> "General Electric GE-2.5", manufacturer |-> "General Electric", manufacturer_pattern |-> "(?P<manufacturer>(GE General Electric)|(General Electric)|GE|Enron|Cypress)", diameter |-> 0, power |-> 2500, is_known_manufacturer |-> TRUE]
   @@ "GE-3.8" :> [model_designation |-> "General Electric GE-3.8", manufacturer |-> "General Electric", manufacturer_pattern |-> "(?P<manufacturer>(GE General Electric)|(General Electric)|GE|Enron|Cypress)", diameter |-> 0, power |-> 3800, is_known_manufacturer |-> TRUE]
   @@ "GE-4.8" :> [model_designation |-> "General Electric GE-4.8", manufacturer |-> "General Electric", manufacturer_pattern |-> "(?P<manufacturer>(GE General Electric)|(General Electric)|GE|Enron|Cypress)", diameter |-> 0, power |-> 4800, is_known_manufacturer |-> TRUE]
   @@ "Gamesa" :> [model_designation |-> "None", manufacturer |-> "None", manufacturer_pattern |-> "None", diameter |-> 0, power |-> 0, is_known_manufacturer |-> FALSE]
   @@ "Gamesa G58" :> [model_designation |-> "Gamesa G58", manufacturer |-> "Gamesa", manufacturer_pattern |-> "(?P<manufacturer>Gamesa|Bonus)", diameter |-> 58, power |-> 0, is_known_manufacturer |-> TRUE]
   @@ "Gamesa G80" :> [model_designation |-> "Gamesa G80", manufacturer |-> "Gamesa", manufacturer_pattern |-> "(?P<manufacturer>Gamesa|Bonus)", diameter |-> 80, power |-> 0, is_known_manufacturer |-> TRUE]
   @@ "General Electric" :> [model_designation |-> "None", manufacturer |-> "None", manufacturer_pattern |-> "None", diameter |-> 0, power |-> 0, is_known_manufacturer |-> FALSE]
   @@ "General Electric GE-1.5" :> [model_designation |-> "General Electric GE-1.5", manufacturer |-> "General Electric", manufacturer_pattern |-> "(?P<manufacturer>(GE General Electric)|(General Electric)|GE|Enron|Cypress)", diameter |-> 0, power |-> 1500, is_known_manufacturer |-> TRUE]
   @@ "General Electric GE-2.5" :> [model_designation |-> "General Electric GE-2.5", manufacturer |-> "General Electric", manufacturer_pattern |-> "(?P<manufacturer>(GE General Electric)|(General Electric)|GE|Enron|Cypress)", diameter |-> 0, power |-> 2500, is_known_manufacturer |-> TRUE]
   @@ "General Electric GE-3.8" :> [model_designation |-> "General Electric GE-3.8", manufacturer |-> "General Electric", manufacturer_pattern |-> "(?P<manufacturer>(GE General Electric)|(General Electric)|GE|Enron|Cypress)", diameter |-> 0, power |-> 3800, is_known_manufacturer |-> TRUE]
   @@ "General Electric GE-4.8" :> [model_designation |-> "General Electric GE-4.8", manufacturer |-> "General Electric", manufacturer_pattern |-> "(?P<manufacturer>(GE General Electric)|(General Electric)|GE|Enron|Cypress)", diameter |-> 0, power |-> 4800, is_known_manufacturer |-> TRUE]
   @@ "MM100" :> [model_designation |-> "REpower MM100", manufacturer |-> "REpower", manufacturer_pattern |-> "(?P<manufacturer>Senvion|REpower|(Jacobs PowerTec JPT)|(Jacobs Wind Electric)|Jacobs|(HSW Husumer Schiffs)|Kenersys)", diameter |-> 100, power |-> 0, is_known_manufacturer |-> TRUE]
   @@ "MM82" :> [model_designation |-> "REpower MM82", manufacturer |-> "REpower", manufacturer_pattern |-> "(?P<manufacturer>Senvion|REpower|(Jacobs PowerTec JPT)|(Jacobs Wind Electric)|Jacobs|(HSW Husumer Schiffs)|Kenersys)", diameter |-> 82, power |-> 0, is_known_manufacturer |-> TRUE]
   @@ "MM92" :> [model_designation |-> "REpower MM92", manufacturer |-> "REpower", manufacturer_pattern |-> "(?P<manufacturer>Senvion|REpower|(Jacobs PowerTec JPT)|(Jacobs Wind Electric)|Jacobs|(HSW Husumer Schiffs)|Kenersys)", diameter |-> 92, power |-> 0, is_known_manufacturer |-> TRUE]
   @@ "N100" :> [model_designation |-> "Nordex N100", manufacturer |-> "Nordex", manufacturer_pattern |-> "(?P<manufacturer>Nordex)", diameter |-> 100, power |-> 0, is_known_manufacturer |-> TRUE]
   @@ "N117" :> [model_designation |-> "Nordex N117", manufacturer |-> "Nordex", manufacturer_pattern |-> "(?P<manufacturer>Nordex)", diameter |-> 117, power |-> 0, is_known_manufacturer |-> TRUE]
   @@ "N131" :> [model_designation |-> "Nordex N131", manufacturer |-> "Nordex", manufacturer_pattern |-> "(?P<manufacturer>Nordex)", diameter |-> 131, power |-> 0, is_known_manufacturer |-> TRUE]
   @@ "N149" :> [model_designation |-> "Nordex N149", manufacturer |-> "Nordex", manufacturer_pattern |-> "(?P<manufacturer>Nordex)", diameter |-> 149, power |-> 0, is_known_manufacturer |-> TRUE]
   @@ "N155" :> [model_designation |-> "Nordex N155", manufacturer |-> "Nordex", manufacturer_pattern |-> "(?P<manufacturer>Nordex)", diameter |-> 155, power |-> 0, is_known_manufacturer |-> TRUE]
   @@ "N90" :> [model_designation |-> "Nordex N90", manufacturer |-> "Nordex", manufacturer_pattern |-> "(?P<manufacturer>Nordex)", diameter |-> 90, power |-> 0, is_known_manufacturer |-> TRUE]
   @@ "NEG" :> [model_designation |-> "NEG", manufacturer |-> "NEG", manufacturer_pattern |-> "(?P<manufacturer>(Nordtank Energy Group)|Nordtank|NEG)", diameter |-> 0, power |-> 0, is_known_manufacturer |-> TRUE]
   @@ "NEG-Micon" :> [model_designation |-> "NEG", manufacturer |-> "NEG", manufacturer_pattern |-> "(?P<manufacturer>(Nordtank Energy Group)|Nordtank|NEG)", diameter |-> 0, power |-> 0, is_known_manufacturer |-> TRUE]
   @@ "None" :> [model_designation |-> "None", manufacturer |-> "None", manufacturer_pattern |-> "None", diameter |-> 0, power |-> 0, is_known_manufacturer |-> FALSE]
   @@ "Nordex" :> [model_designation |-> "None", manufacturer |-> "None", manufacturer_pattern |-> "None", diameter |-> 0, power |-> 0, is_known_manufacturer |-> FALSE]
   @@ "Nordex N100" :> [model_designation |-> "Nordex N100", manufacturer |-> "Nordex", manufacturer_pattern |-> "(?P<manufacturer>Nordex)", diameter |-> 100, power |-> 0, is_known_manufacturer |-> TRUE]
   @@ "Nordex N117" :> [model_designation |-> "Nordex N117", manufacturer |-> "Nordex", manufacturer_pattern |-> "(?P<manufacturer>Nordex)", diameter |-> 117, power |-> 0, is_known_manufacturer |-> TRUE]
   @@ "Nordex N131" :> [model_designation |-> "Nordex N131", manufacturer |-> "Nordex", manufacturer_pattern |-> "(?P<manufacturer>Nordex)", diameter |-> 131, power |-> 0, is_known_manufacturer |-> TRUE]
   @@ "Nordex N149" :> [model_designation |-> "Nordex N149", manufacturer |-> "Nordex", manufacturer_pattern |-> "(?P<manufacturer>Nordex)", diameter |-> 149, power |-> 0, is_known_manufacturer |-> TRUE]
   @@ "Nordex N155" :> [model_designation |-> "Nordex N155", manufacturer |-> "Nordex", manufacturer_pattern |-> "(?P<manufacturer>Nordex)", diameter |-> 155, power |-> 0, is_known_manufacturer |-> TRUE]
   @@ "Nordex N90" :> [model_designation |-> "Nordex N90", manufacturer |-> "Nordex", manufacturer_pattern |-> "(?P<manufacturer>Nordex)", diameter |-> 90, power |-> 0, is_known_manufacturer |-> TRUE]
   @@ "Nordtank" :> [model_designation |-> "Nordtank", manufacturer |-> "Nordtank", manufacturer_pattern |-> "(?P<manufacturer>(Nordtank Energy Group)|Nordtank|NEG)", diameter |-> 0, power |-> 0, is_known_manufacturer |-> TRUE]
   @@ "REpower" :> [model_designation |-> "None", manufacturer |-> "None", manufacturer_pattern |-> "None", diameter |-> 0, power |-> 0, is_known_manufacturer |-> FALSE]
   @@ "REpower MM100" :> [model_designation |-> "REpower MM100", manufacturer |-> "REpower", manufacturer_pattern |-> "(?P<manufacturer>Senvion|REpower|(Jacobs PowerTec JPT)|(Jacobs Wind Electric)|Jacobs|(HSW Husumer Schiffs)|Kenersys)", diameter |-> 100, power |-> 0, is_known_manufacturer |-> TRUE]
   @@ "REpower MM82" :> [model_designation |-> "REpower MM82", manufacturer |-> "REpower", manufacturer_pattern |-> "(?P<manufacturer>Senvion|REpower|(Jacobs PowerTec JPT)|(Jacobs Wind Electric)|Jacobs|(HSW Husumer Schiffs)|Kenersys)", diameter |-> 82, power |-> 0, is_known_manufacturer |-> TRUE]
   @@ "REpower MM92" :> [model_designation |-> "REpower MM92", manufacturer |-> "REpower", manufacturer_pattern |-> "(?P<manufacturer>Senvion|REpower|(Jacobs PowerTec JPT)|(Jacobs Wind Electric)|Jacobs|(HSW Husumer Schiffs)|Kenersys)", diameter |-> 92, power |-> 0, is_known_manufacturer |-> TRUE]
   @@ "SG-114" :> [model_designation |-> "Siemens Gamesa SG-114", manufacturer |-> "Siemens Gamesa", manufacturer_pattern |-> "(?P<manufacturer>(Siemens(\\s|-)Gamesa)|Siemens|Gamesa|(AN(-|\\s))?Bonus|SWT)", diameter |-> 114, power |-> 0, is_known_manufacturer |-> TRUE]
   @@ "SG-132" :> [model_designation |-> "Siemens Gamesa SG-132", manufacturer |-> "Siemens Gamesa", manufacturer_pattern |-> "(?P<manufacturer>(Siemens(\\s|-)Gamesa)|Siemens|Gamesa|(AN(-|\\s))?Bonus|SWT)", diameter |-> 132, power |-> 0, is_known_manufacturer |-> TRUE]
   @@ "SG-145" :> [model_designation |-> "Siemens Gamesa SG-145", manufacturer |-> "Siemens Gamesa", manufacturer_pattern |-> "(?P<manufacturer>(Siemens(\\s|-)Gamesa)|Siemens|Gamesa|(AN(-|\\s))?Bonus|SWT)", diameter |-> 145, power |-> 0, is_known_manufacturer |-> TRUE]
   @@ "SG-D8" :> [model_designation |-> "Siemens Gamesa SG-", manufacturer |-> "Siemens Gamesa", manufacturer_pattern |-> "(?P<manufacturer>(Siemens(\\s|-)Gamesa)|Siemens|Gamesa|(AN(-|\\s))?Bonus|SWT)", diameter |-> 0, power |-> 0, is_known_manufacturer |-> TRUE]
   @@ "SWT-107" :> [model_designation |-> "Siemens SWT-107", manufacturer |-> "Siemens", manufacturer_pattern |-> "(?P<manufacturer>(Siemens(\\s|-)Gamesa)|Siemens|Gamesa|(AN(-|\\s))?Bonus|SWT)", diameter |-> 107, power |-> 0, is_known_manufacturer |-> TRUE]
   @@ "SWT-120" :> [model_designation |-> "Siemens SWT-120", manufacturer |-> "Siemens", manufacturer_pattern |-> "(?P<manufacturer>(Siemens(\\s|-)Gamesa)|Siemens|Gamesa|(AN(-|\\s))?Bonus|SWT)", diameter |-> 120, power |-> 0, is_known_manufacturer |-> TRUE]
   @@ "SWT-130" :> [model_designation |-> "Siemens SWT-130", manufacturer |-> "Siemens", manufacturer_pattern |-> "(?P<manufacturer>(Siemens(\\s|-)Gamesa)|Siemens|Gamesa|(AN(-|\\s))?Bonus|SWT)", diameter |-> 130, power |-> 0, is_known_manufacturer |-> TRUE]
   @@ "SWT-154" :> [model_designation |-> "Siemens SWT-154", manufacturer |-> "Siemens", manufacturer_pattern |-> "(?P<manufacturer>(Siemens(\\s|-)Gamesa)|Siemens|Gamesa|(AN(-|\\s))?Bonus|SWT)", diameter |-> 154, power |-> 0, is_known_manufacturer |-> TRUE]
   @@ "Senvion" :> [model_designation |-> "None", manufacturer |-> "None", manufacturer_pattern |-> "None", diameter |-> 0, power |-> 0, is_known_manufacturer |-> FALSE]
   @@ "Senvion-3M" :> [model_designation |-> "Senvion 3", manufacturer |-> "Senvion", manufacturer_pattern |-> "(?P<manufacturer>Senvion|REpower|(Jacobs PowerTec JPT)|(Jacobs Wind Electric)|Jacobs|(HSW Husumer Schiffs)|Kenersys)", diameter |-> 0, power |-> 3000, is_known_manufacturer |-> TRUE]
   @@ "Senvion-5M" :> [model_designation |-> "Senvion 5", manufacturer |-> "Senvion", manufacturer_pattern |-> "(?P<manufacturer>Senvion|REpower|(Jacobs PowerTec JPT)|(Jacobs Wind Electric)|Jacobs|(HSW Husumer Schiffs)|Kenersys)", diameter |-> 0, power |-> 5000, is_known_manufacturer |-> TRUE]
   @@ "Senvion-6M" :> [model_designation |-> "Senvion 6.2", manufacturer |-> "Senvion", manufacturer_pattern |-> "(?P<manufacturer>Senvion|REpower|(Jacobs PowerTec JPT)|(Jacobs Wind Electric)|Jacobs|(HSW Husumer Schiffs)|Kenersys)", diameter |-> 0, power |-> 6200, is_known_manufacturer |-> TRUE]
   @@ "Siemens" :> [model_designation |-> "None", manufacturer |-> "None", manufacturer_pattern |-> "None", diameter |-> 0, power |-> 0, is_known_manufacturer |-> FALSE]
   @@ "Siemens Gamesa" :> [model_designation |-> "None", manufacturer |-> "None", manufacturer_pattern |-> "None", diameter |-> 0, power |-> 0, is_known_manufacturer |-> FALSE]
   @@ "Siemens Gamesa SG-114" :> [model_designation |-> "Siemens Gamesa SG-114", manufacturer |-> "Siemens Gamesa", manufacturer_pattern |-> "(?P<manufacturer>(Siemens(\\s|-)Gamesa)|Siemens|Gamesa|(AN(-|\\s))?Bonus|SWT)", diameter |-> 114, power |-> 0, is_known_manufacturer |-> TRUE]
   @@ "Siemens Gamesa SG-132" :> [model_designation |-> "Siemens Gamesa SG-132", manufacturer |-> "Siemens Gamesa", manufacturer_pattern |-> "(?P<manufacturer>(Siemens(\\s|-)Gamesa)|Siemens|Gamesa|(AN(-|\\s))?Bonus|SWT)", diameter |-> 132, power |-> 0, is_known_manufacturer |-> TRUE]
   @@ "Siemens Gamesa SG-145" :> [model_designation |-> "Siemens Gamesa SG-145", manufacturer |-> "Siemens Gamesa", manufacturer_pattern |-> "(?P<manufacturer>(Siemens(\\s|-)Gamesa)|Siemens|Gamesa|(AN(-|\\s))?Bonus|SWT)", diameter |-> 145, power |-> 0, is_known_manufacturer |-> TRUE]
   @@ "Siemens Gamesa SG-D8" :> [model_designation |-> "Siemens Gamesa SG-", manufacturer |-> "Siemens Gamesa", manufacturer_pattern |-> "(?P<manufacturer>(Siemens(\\s|-)Gamesa)|Siemens|Gamesa|(AN(-|\\s))?Bonus|SWT)", diameter |-> 0, power |-> 0, is_known_manufacturer |-> TRUE]
   @@ "Siemens SWT-107" :> [model_designation |-> "Siemens SWT-107", manufacturer |-> "Siemens", manufacturer_pattern |-> "(?P<manufacturer>(Siemens(\\s|-)Gamesa)|Siemens|Gamesa|(AN(-|\\s))?Bonus|SWT)", diameter |-> 107, power |-> 0, is_known_manufacturer |-> TRUE]
   @@ "Siemens SWT-120" :> [model_designation |-> "Siemens SWT-120", manufacturer |-> "Siemens", manufacturer_pattern |-> "(?P<manufacturer>(Siemens(\\s|-)Gamesa)|Siemens|Gamesa|(AN(-|\\s))?Bonus|SWT)", diameter |-> 120, power |-> 0, is_known_manufacturer |-> TRUE]
   @@ "Siemens SWT-130" :> [model_designation |-> "Siemens SWT-130", manufacturer |-> "Siemens", manufacturer_pattern |-> "(?P<manufacturer>(Siemens(\\s|-)Gamesa)|Siemens|Gamesa|(AN(-|\\s))?Bonus|SWT)", diameter |-> 130, power |-> 0, is_known_manufacturer |-> TRUE]
   @@ "Siemens SWT-154" :> [model_designation |-> "Siemens SWT-154", manufacturer |-> "Siemens", manufacturer_pattern |-> "(?P<manufacturer>(Siemens(\\s|-)Gamesa)|Siemens|Gamesa|(AN(-|\\s))?Bonus|SWT)", diameter |-> 154, power |-> 0, is_known_manufacturer |-> TRUE]
   @@ "Siemens-D7" :> [model_designation |-> "Siemens ", manufacturer |-> "Siemens", manufacturer_pattern |-> "(?P<manufacturer>(Siemens(\\s|-)Gamesa)|Siemens|Gamesa|(AN(-|\\s))?Bonus|SWT)", diameter |-> 0, power |-> 0, is_known_manufacturer |-> TRUE]
   @@ "T1" :> [model_designation |-> "T1", manufacturer |-> "None", manufacturer_pattern |-> "None", diameter |-> 0, power |-> 0, is_known_manufacturer |-> FALSE]
   @@ "T1?" :> [model_designation |-> "T1", manufacturer |-> "None", manufacturer_pattern |-> "None", diameter |-> 0, power |-> 0, is_known_manufacturer |-> FALSE]
   @@ "T2" :> [model_designation |-> "T2", manufacturer |-> "None", manufacturer_pattern |-> "None", diameter |-> 0, power |-> 0, is_known_manufacturer |-> FALSE]
   @@ "T4" :> [model_designation |-> "T4", manufacturer |-> "None", manufacturer_pattern |-> "None", diameter |-> 0, power |-> 0, is_known_manufacturer |-> FALSE]
   @@ "T6" :> [model_designation |-> "T6", manufacturer |-> "None", manufacturer_pattern |-> "None", diameter |-> 0, power |-> 0, is_known_manufacturer |-> FALSE]
   @@ "T7" :> [model_designation |-> "T7", manufacturer |-> "None", manufacturer_pattern |-> "None", diameter |-> 0, power |-> 0, is_known_manufacturer |-> FALSE]
   @@ "T9" :> [model_designation |-> "T9", manufacturer |-> "None", manufacturer_pattern |-> "None", diameter |-> 0, power |-> 0, is_known_manufacturer |-> FALSE]
   @@ "Tacke" :> [model_designation |-> "None", manufacturer |-> "None", manufacturer_pattern |-> "None", diameter |-> 0, power |-> 0, is_known_manufacturer |-> FALSE]
   @@ "V100" :> [model_designation |-> "Vestas V100", manufacturer |-> "Vestas", manufacturer_pattern |-> "(?P<manufacturer>Vestas|(MHI Vestas Offshore)|(MHI Vestas)|MVOW)", diameter |-> 100, power |-> 0, is_known_manufacturer |-> TRUE]
   @@ "V112" :> [model_designation |-> "Vestas V112", manufacturer |-> "Vestas", manufacturer_pattern |-> "(?P<manufacturer>Vestas|(MHI Vestas Offshore)|(MHI Vestas)|MVOW)", diameter |-> 112, power |-> 0, is_known_manufacturer |-> TRUE]
   @@ "V117" :> [model_designation |-> "Vestas V117", manufacturer |-> "Vestas", manufacturer_pattern |-> "(?P<manufacturer>Vestas|(MHI Vestas Offshore)|(MHI Vestas)|MVOW)", diameter |-> 117, power |-> 0, is_known_manufacturer |-> TRUE]
   @@ "V126" :> [model_designation |-> "Vestas V126", manufacturer |-> "Vestas", manufacturer_pattern |-> "(?P<manufacturer>Vestas|(MHI Vestas Offshore)|(MHI Vestas)|MVOW)", diameter |-> 126, power |-> 0, is_known_manufacturer |-> TRUE]
   @@ "V136" :> [model_designation |-> "Vestas V136", manufacturer |-> "Vestas", manufacturer_pattern |-> "(?P<manufacturer>Vestas|(MHI Vestas Offshore)|(MHI Vestas)|MVOW)", diameter |-> 136, power |-> 0, is_known_manufacturer |-> TRUE]
   @@ "V150" :> [model_designation |-> "Vestas V150", manufacturer |-> "Vestas", manufacturer_pattern |-> "(?P<manufacturer>Vestas|(MHI Vestas Offshore)|(MHI Vestas)|MVOW)", diameter |-> 150, power |-> 0, is_known_manufacturer |-> TRUE]
   @@ "V164" :> [model_designation |-> "Vestas V164", manufacturer |-> "Vestas", manufacturer_pattern |-> "(?P<manufacturer>Vestas|(MHI Vestas Offshore)|(MHI Vestas)|MVOW)", diameter |-> 164, power |-> 0, is_known_manufacturer |-> TRUE]
   @@ "V174" :> [model_designation |-> "Vestas V174", manufacturer |-> "Vestas", manufacturer_pattern |-> "(?P<manufacturer>Vestas|(MHI Vestas Offshore)|(MHI Vestas)|MVOW)", diameter |-> 174, power |-> 0, is_known_manufacturer |-> TRUE]
   @@ "V52" :> [model_designation |-> "Vestas V52", manufacturer |-> "Vestas", manufacturer_pattern |-> "(?P<manufacturer>Vestas|(MHI Vestas Offshore)|(MHI Vestas)|MVOW)", diameter |-> 52, power |-> 0, is_known_manufacturer |-> TRUE]
   @@ "V80" :> [model_designation |-> "Vestas V80", manufacturer |-> "Vestas", manufacturer_pattern |-> "(?P<manufacturer>Vestas|(MHI Vestas Offshore)|(MHI Vestas)|MVOW)", diameter |-> 80, power |-> 0, is_known_manufacturer |-> TRUE]
   @@ "V90" :> [model_designation |-> "Vestas V90", manufacturer |-> "Vestas", manufacturer_pattern |-> "(?P<manufacturer>Vestas|(MHI Vestas Offshore)|(MHI Vestas)|MVOW)", diameter |-> 90, power |-> 0, is_known_manufacturer |-> TRUE]
   @@ "Vestas" :> [model_designation |-> "None", manufacturer |-> "None", manufacturer_pattern |-> "None", diameter |-> 0, power |-> 0, is_known_manufacturer |-> FALSE]
   @@ "Vestas E82" :> [model_designation |-> "Vestas E82", manufacturer |-> "Vestas", manufacturer_pattern |-> "None", diameter |-> 0, power |-> 0, is_known_manufacturer |-> FALSE]
   @@ "Vestas T1" :> [model_designation |-> "Vestas T1", manufacturer |-> "Vestas", manufacturer_pattern |-> "None", diameter |-> 0, power |-> 0, is_known_manufacturer |-> FALSE]
   @@ "Vestas V100" :> [model_designation |-> "Vestas V100", manufacturer |-> "Vestas", manufacturer_pattern |-> "(?P<manufacturer>Vestas|(MHI Vestas Offshore)|(MHI Vestas)|MVOW)", diameter |-> 100, power |-> 0, is_known_manufacturer |-> TRUE]
   @@ "Vestas V112" :> [model_designation |-> "Vestas V112", manufacturer |-> "Vestas", manufacturer_pattern |-> "(?P<manufacturer>Vestas|(MHI Vestas Offshore)|(MHI Vestas)|MVOW)", diameter |-> 112, power |-> 0, is_known_manufacturer |-> TRUE]
   @@ "Vestas V112-3.45" :> [model_designation |-> "Vestas V112-3.45", manufacturer |-> "Vestas", manufacturer_pattern |-> "(?P<manufacturer>Vestas|(MHI Vestas Offshore)|(MHI Vestas)|MVOW)", diameter |-> 112, power |-> 3450, is_known_manufacturer |-> TRUE]
   @@ "Vestas V117" :> [model_designation |-> "Vestas V117", manufacturer |-> "Vestas", manufacturer_pattern |-> "(?P<manufacturer>Vestas|(MHI Vestas Offshore)|(MHI Vestas)|MVOW)", diameter |-> 117, power |-> 0, is_known_manufacturer |-> TRUE]
   @@ "Vestas V117-3.45" :> [model_designation |-> "Vestas V117-3.45", manufacturer |-> "Vestas", manufacturer_pattern |-> "(?P<manufacturer>Vestas|(MHI Vestas Offshore)|(MHI Vestas)|MVOW)", diameter |-> 117, power |-> 3450, is_known_manufacturer |-> TRUE]
   @@ "Vestas V126" :> [model_designation |-> "Vestas V126", manufacturer |-> "Vestas", manufacturer_pattern |-> "(?P<manufacturer>Vestas|(MHI Vestas Offshore)|(MHI Vestas)|MVOW)", diameter |-> 126, power |-> 0, is_known_manufacturer |-> TRUE]
   @@ "Vestas V136" :> [model_designation |-> "Vestas V136", manufacturer |-> "Vestas", manufacturer_pattern |-> "(?P<manufacturer>Vestas|(MHI Vestas Offshore)|(MHI Vestas)|MVOW)", diameter |-> 136, power |-> 0, is_known_manufacturer |-> TRUE]
   @@ "Vestas V150" :> [model_designation |-> "Vestas V150", manufacturer |-> "Vestas", manufacturer_pattern |-> "(?P<manufacturer>Vestas|(MHI Vestas Offshore)|(MHI Vestas)|MVOW)", diameter |-> 150, power |-> 0, is_known_manufacturer |-> TRUE]
   @@ "Vestas V164" :> [model_designation |-> "Vestas V164", manufacturer |-> "Vestas", manufacturer_pattern |-> "(?P<manufacturer>Vestas|(MHI Vestas Offshore)|(MHI Vestas)|MVOW)", diameter |-> 164, power |-> 0, is_known_manufacturer |-> TRUE]
   @@ "Vestas V174" :> [model_designation |-> "Vestas V174", manufacturer |-> "Vestas", manufacturer_pattern |-> "(?P<manufacturer>Vestas|(MHI Vestas Offshore)|(MHI Vestas)|MVOW)", diameter |-> 174, power |-> 0, is_known_manufacturer |-> TRUE]
   @@ "Vestas V52" :> [model_designation |-> "Vestas V52", manufacturer |-> "Vestas", manufacturer_pattern |-> "(?P<manufacturer>Vestas|(MHI Vestas Offshore)|(MHI Vestas)|MVOW)", diameter |-> 52, power |-> 0, is_known_manufacturer |-> TRUE]
   @@ "Vestas V80" :> [model_designation |-> "Vestas V80", manufacturer |-> "Vestas", manufacturer_pattern |-> "(?P<manufacturer>Vestas|(MHI Vestas Offshore)|(MHI Vestas)|MVOW)", diameter |-> 80, power |-> 0, is_known_manufacturer |-> TRUE]
   @@ "Vestas V80-2.0" :> [model_designation |-> "Vestas V80-2.0", manufacturer |-> "Vestas", manufacturer_pattern |-> "(?P<manufacturer>Vestas|(MHI Vestas Offshore)|(MHI Vestas)|MVOW)", diameter |-> 80, power |-> 2000, is_known_manufacturer |-> TRUE]
   @@ "Vestas V90" :> [model_designation |-> "Vestas V90", manufacturer |-> "Vestas", manufacturer_pattern |-> "(?P<manufacturer>Vestas|(MHI Vestas Offshore)|(MHI Vestas)|MVOW)", diameter |-> 90, power |-> 0, is_known_manufacturer |-> TRUE]
   @@ "Vestas V90-3.0" :> [model_designation |-> "Vestas V90-3.0", manufacturer |-> "Vestas", manufacturer_pattern |-> "(?P<manufacturer>Vestas|(MHI Vestas Offshore)|(MHI Vestas)|MVOW)", diameter |-> 90, power |-> 3000, is_known_manufacturer |-> TRUE]
   @@ "Vestas Vestas T1" :> [model_designation |-> "None", manufacturer |-> "None", manufacturer_pattern |-> "None", diameter |-> 0, power |-> 0, is_known_manufacturer |-> FALSE]
   @@ "Vestas Wind" :> [model_designation |-> "None", manufacturer |-> "None", manufacturer_pattern |-> "None", diameter |-> 0, power |-> 0, is_known_manufacturer |-> FALSE]
   @@ "Vestas Wind E82" :> [model_designation |-> "None", manufacturer |-> "None", manufacturer_pattern |-> "None", diameter |-> 0, power |-> 0, is_known_manufacturer |-> FALSE]
   @@ "Vestas Wind Systems" :> [model_designation |-> "None", manufacturer |-> "None", manufacturer_pattern |-> "None", diameter |-> 0, power |-> 0, is_known_manufacturer |-> FALSE]
   @@ "Vestas Wind T1" :> [model_designation |-> "None", manufacturer |-> "None", manufacturer_pattern |-> "None", diameter |-> 0, power |-> 0, is_known_manufacturer |-> FALSE]
   @@ "Vestas Wind V52" :> [model_designation |-> "None", manufacturer |-> "None", manufacturer_pattern |-> "None", diameter |-> 0, power |-> 0, is_known_manufacturer |-> FALSE]
   @@ "Vestas Wind Vestas T1" :> [model_designation |-> "None", manufacturer |-> "None", manufacturer_pattern |-> "None", diameter |-> 0, power |-> 0, is_known_manufacturer |-> FALSE] )

PatternMatchTable ==
  { <<"(?P<manufacturer>Enercon)", "Enercon">>,
    <<"(?P<manufacturer>Vestas|(MHI Vestas Offshore)|(MHI Vestas)|MVOW)", "Vestas">> }

PlaceholderTable ==
  { "FO_09001" }

StartsWithTable ==
  { <<"Vestas T1", "Vestas">> }

SortedDesignations ==
  << "Enercon E-82 2.000", "Enercon E82", "FO_09001", "Vestas V112-3.45", "Vestas V117-3.45", "Vestas V80-2.0", "Vestas V90-3.0" >>

HashTable ==
  (   <<"None", 5237, 489>> :> 275082
   @@ <<"None", 5450, 700>> :> 54878413
   @@ <<"None", 5000, 1000>> :> 17935328
   @@ <<"None", 4850, 200>> :> 59678482
   @@ <<"None", 5300, -200>> :> 130805547
   @@ <<"None", 4000, -300>> :> 20991826
   @@ <<"None", 3000, 3000>> :> 5828167
   @@ <<"None", 4100, 1000>> :> 42963850
   @@ <<"E82", 5237, 489>> :> 15473855
   @@ <<"E82", 5450, 700>> :> 1290756
   @@ <<"E82", 5000, 1000>> :> 83242404
   @@ <<"E82", 4850, 200>> :> 1793210
   @@ <<"E82", 5300, -200>> :> 78962641
   @@ <<"E82", 4000, -300>> :> 125128005
   @@ <<"E82", 3000, 3000>> :> 133880069
   @@ <<"E82", 4100, 1000>> :> 109301274
   @@ <<"T1", 5237, 489>> :> 69728105
   @@ <<"T1", 5450, 700>> :> 63275742
   @@ <<"T1", 5000, 1000>> :> 2737732
   @@ <<"T1", 4850, 200>> :> 122377218
   @@ <<"T1", 5300, -200>> :> 80984119
   @@ <<"T1", 4000, -300>> :> 59122176
   @@ <<"T1", 3000, 3000>> :> 132858634
   @@ <<"T1", 4100, 1000>> :> 67596444
   @@ <<"V52", 5237, 489>> :> 27804232
   @@ <<"V52", 5450, 700>> :> 1356282
   @@ <<"V52", 5000, 1000>> :> 129690163
   @@ <<"V52", 4850, 200>> :> 35254943
   @@ <<"V52", 5300, -200>> :> 69283423
   @@ <<"V52", 4000, -300>> :> 31739658
   @@ <<"V52", 3000, 3000>> :> 105195567
   @@ <<"V52", 4100, 1000>> :> 32798293
   @@ <<"Vestas T1", 5237, 489>> :> 126664691
   @@ <<"Vestas T1", 5450, 700>> :> 3198540
   @@ <<"Vestas T1", 5000, 1000>> :> 45705800
   @@ <<"Vestas T1", 4850, 200>> :> 85683162
   @@ <<"Vestas T1", 5300, -200>> :> 126922743
   @@ <<"Vestas T1", 4000, -300>> :> 13682290
   @@ <<"Vestas T1", 3000, 3000>> :> 1796399
   @@ <<"Vestas T1", 4100, 1000>> :> 112470924
   @@ <<"9020", 5237, 489>> :> 45575009
   @@ <<"9020", 5450, 700>> :> 135388002
   @@ <<"9020", 5000, 1000>> :> 73818669
   @@ <<"9020", 4850, 200>> :> 8846109
   @@ <<"9020", 5300, -200>> :> 70233878
   @@ <<"9020", 4000, -300>> :> 26842737
   @@ <<"9020", 3000, 3000>> :> 92610921
   @@ <<"9020", 4100, 1000>> :> 78840683
   @@ <<"3010", 5237, 489>> :> 18945231
   @@ <<"3010", 5450, 700>> :> 52856291
   @@ <<"3010", 5000, 1000>> :> 70910110
   @@ <<"3010", 4850, 200>> :> 128454335
   @@ <<"3010", 5300, -200>> :> 120269561
   @@ <<"3010", 4000, -300>> :> 14758409
   @@ <<"3010", 3000, 3000>> :> 124899780
   @@ <<"3010", 4100, 1000>> :> 139613581 )

ModelDiameterTable ==
  (   "V52" :> 52
   @@ "V80" :> 80
   @@ "V90" :> 90
   @@ "V100" :> 100
   @@ "V112" :> 112
   @@ "V117" :> 117
   @@ "V126" :> 126
   @@ "V136" :> 136
   @@ "V150" :> 150
   @@ "E40" :> 40
   @@ "E48" :> 48
   @@ "E70" :> 70
   @@ "E82" :> 82
   @@ "E92" :> 92
   @@ "E101" :> 101
   @@ "E115" :> 115
   @@ "E126" :> 126
   @@ "E138" :> 138
   @@ "SWT-107" :> 107
   @@ "SWT-120" :> 120
   @@ "SWT-130" :> 130
   @@ "SWT-154" :> 154
   @@ "SG-114" :> 114
   @@ "SG-132" :> 132
   @@ "SG-145" :> 145
   @@ "N90" :> 90
   @@ "N100" :> 100
   @@ "N117" :> 117
   @@ "N131" :> 131
   @@ "N149" :> 149
   @@ "N155" :> 155
   @@ "MM82" :> 0
   @@ "MM92" :> 0
   @@ "MM100" :> 0
   @@ "Senvion-3M" :> 0
   @@ "Senvion-5M" :> 0
   @@ "Senvion-6M" :> 0
   @@ "GE-1.5" :> 0
   @@ "GE-2.5" :> 0
   @@ "GE-3.8" :> 0
   @@ "GE-4.8" :> 0
   @@ "Tacke" :> 0
   @@ "NEG-Micon" :> 0
   @@ "Bonus" :> 0
   @@ "AN-Bonus" :> 0
   @@ "Nordtank" :> 0 )

FirstPartTable ==
  (   "None" :> 0
   @@ "E82" :> 0
   @@ "T1" :> 0
   @@ "V52" :> 0
   @@ "Vestas T1" :> 0
   @@ "9020" :> 90
   @@ "3010" :> 0 )

DefaultTurbineTable ==
  (   <<5237, 489>> :> "Senvion-6M"
   @@ <<5450, 700>> :> "V112" )

common_models ==
  << "V52", "V80", "V90", "V100", "V112", "V117", "V126", "V136", "V150", "E40", "E48", "E70", "E82", "E92", "E101", "E115", "E126", "E138", "SWT-107", "SWT-120", "SWT-130", "SWT-154", "SG-114", "SG-132", "SG-145", "N90", "N100", "N117", "N131", "N149", "N155", "MM82", "MM92", "MM100", "Senvion-3M", "Senvion-5M", "Senvion-6M", "GE-1.5", "GE-2.5", "GE-3.8", "GE-4.8", "Tacke", "NEG-Micon", "Bonus", "AN-Bonus", "Nordtank" >>


\* str.lower()
Lower(s) == LowerTable[s]

\* str.strip("?") on the manufacturer and type of a record; None stays None
Strip(s) == IF s = None THEN None ELSE StripTable[s]

\* ModelNameBuilder.ensure_manufacturer_prefix
ensure_manufacturer_prefix(model_name) == PrefixTable[model_name]

\* ModelNameParser.parse_model_name
parse_model_name(model_name) == ParseTable[model_name]

\* pandas Series.str.match(manufacturer_pattern, case=False, na=False)
PatternMatches(pattern, manufacturer) == <<pattern, manufacturer>> \in PatternMatchTable

\* pandas Series.str.match(r"FO_\d+", na=False) on a model designation
IsPlaceholder(model_designation) == model_designation \in PlaceholderTable

\* turbine_type.lower().startswith(man_code.lower())
StartsWith(turbine_type, man_code) == <<turbine_type, man_code>> \in StartsWithTable

\* str((model_designation, row_data_used)): the text of the tuple
TupleStr(model_designation, flag) ==
  "(" \o (IF model_designation = None THEN "None" ELSE "'" \o model_designation \o "'")
      \o ", " \o (IF flag THEN "True" ELSE "False") \o ")"

\* position of a designation in sorted order (pandas mode() sorts its result)
RECURSIVE RankFrom(_, _)
RankFrom(d, i) ==
  IF i > Len(SortedDesignations) THEN i
  ELSE IF SortedDesignations[i] = d THEN i ELSE RankFrom(d, i + 1)

Rank(d) == RankFrom(d, 1)

(***************************************************************************)
(* The reference catalog (TurbineTypeManager.specs_df_full), in load       *)
(* order; the line index of an entry is its position, counted from 0.      *)
(***************************************************************************)
Entry(code, model, md, man, d, h, p, ws, mdata, known) ==
  [ model_designation |-> md, manufacturer |-> man, diameter |-> d,
    is_known_manufacturer |-> known, type_id |-> None,
    type_code |-> code, turbine_model |-> model, height |-> h, z_height |-> h,
    rated_power |-> p,
    wind_speeds_length |-> ws,
    model_designation_length |-> IF md = None THEN 0 ELSE Len(md), is_manufacturer_data |-> mdata ]

specs_df_full ==
  << Entry("T1", "Vestas V80-2.0", "Vestas V80-2.0", "Vestas", 80, 60, 2000, 10, FALSE, TRUE),
     Entry("T2", "Vestas V90-3.0", "Vestas V90-3.0", "Vestas", 90, 80, 3000, 10, FALSE, TRUE),
     Entry("E82", "Enercon E82", "Enercon E82", "Enercon", 82, 78, 0, 0, FALSE, TRUE),
     Entry("T4", "Enercon E-82 2.000", "Enercon E-82 2.000", "Enercon", 82, 78, 2000, 12, TRUE, TRUE),
     Entry("FO_09001", "FO_09001", "FO_09001", "Vestas", 90, 80, 2000, 10, FALSE, FALSE),
     Entry("T9", "", None, "", 0, 0, 0, 0, FALSE, FALSE),
     Entry("T6", "Vestas V112-3.45", "Vestas V112-3.45", "Vestas", 112, 94, 3450, 10, FALSE, TRUE),
     Entry("T7", "Vestas V117-3.45", "Vestas V117-3.45", "Vestas", 117, 91, 3450, 10, FALSE, TRUE) >>

\* the line indices of the full catalog
FullIndex == 0 .. (Len(specs_df_full) - 1)

\* specs_df_full.iloc[i]
Row(i) == specs_df_full[i + 1]

\* filter_specs: known manufacturer, wind-speed data and a designation
filter_specs ==
  { i \in FullIndex :
      /\ Row(i).is_known_manufacturer
      /\ Row(i).wind_speeds_length > 0
      /\ Row(i).model_designation_length > 0 }

\* the file the catalog was loaded from
SpecsFile == "specs.json"

\* the condition of filter_specs on one row
Usable(row) ==
  /\ row.is_known_manufacturer
  /\ row.wind_speeds_length > 0
  /\ row.model_designation_length > 0

\* a filter that numbers the rows it keeps from 0
FilterSpecsRenumbered(specs) ==
  [ i \in 0 .. (Len(SelectSeq(specs, Usable)) - 1) |-> SelectSeq(specs, Usable)[i + 1] ]

\* filter_specs on a frame: the rows with a known manufacturer, wind-speed
\* data and a designation, each under its index label
FilterSpecs(specs) ==
  [ i \in { j \in 0 .. (Len(specs) - 1) : Usable(specs[j + 1]) } |-> specs[i + 1] ]

\* TurbineTypeManager.get_specs_dataframe: the line indices of the view
get_specs_dataframe(filtered) == IF filtered THEN filter_specs ELSE FullIndex

\* a dict-like value that is None (no keys)
NoData == [k \in {} |-> 0]

\* TurbineTypeManager.get_specs_by_line_index: the entry, or None (NoData)
get_specs_by_line_index(line_index) ==
  IF line_index # NoneIndex /\ line_index >= 0 /\ line_index < Len(specs_df_full)
  THEN Row(line_index)
  ELSE NoData

(***************************************************************************)
(* utils.py: the getters over dict-like sources.                           *)
(***************************************************************************)
\* data[key] is a valid positive number (require_positive=True)
HasPositive(data, key) == key \in DOMAIN data /\ data[key] > 0

\* get_float_from_dict(keys, data, default, require_positive=True): the first
\* key of keys with a valid positive value in data, or None
RECURSIVE FirstKeyFrom(_, _, _)
FirstKeyFrom(keys, data, i) ==
  IF i > Len(keys) THEN None
  ELSE IF HasPositive(data, keys[i]) THEN keys[i]
  ELSE FirstKeyFrom(keys, data, i + 1)

get_float_from_dict(keys, data) ==
  LET key == FirstKeyFrom(keys, data, 1)
  IN [value |-> IF key = None THEN 0 ELSE data[key], key |-> key]

\* get_float_from_dict_list: the first source of dict_list with a positive value
RECURSIVE FloatFromListAt(_, _, _)
FloatFromListAt(keys, dict_list, i) ==
  IF i > Len(dict_list) THEN [value |-> 0, key |-> None]
  ELSE LET r == get_float_from_dict(keys, dict_list[i])
       IN IF r.value > 0 THEN r ELSE FloatFromListAt(keys, dict_list, i + 1)

get_float_from_dict_list(keys, dict_list) == FloatFromListAt(keys, dict_list, 1)

radius_fields == << "radius", "radius (m)" >>

diameter_fields ==
  << "diameter", "diameter (m)", "rotor_diameter", "rotor diameter",
     "rotor diameter (m)", "Rotor diameter (m)", "Rotordiameter (m)", "diam" >>

height_fields ==
  << "hubheight", "hub_height", "hub height", "Hub height", "hub height (m)",
     "Hub height", "Hub height (m)", "height", "z_height (m)", "z_height",
     "ash", "hoogte_paa", "Navhojd (m)" >>

power_fields ==
  << "rated_power", "rated_power_kw", "rated_power_mw", "rated power",
     "Rated power", "power_rating", "power_rating_kw", "power_rating_mw",
     "power", "kw", "power_kw", "power_mw", "vermogen_m", "P_rated",
     "nominal_power", "nominal power", "nominal power (kW)", "capacity",
     "Capacity (kW)", "Capacity", "Maxeffekt (MW)" >>

\* get_radius_from_dict: the radius field, else half the diameter field;
\* the result is the doubled radius (0 when there is none)
get_radius_from_dict(data) ==
  LET radius == get_float_from_dict(radius_fields, data).value
  IN IF radius > 0 THEN 2 * radius
     ELSE get_float_from_dict(diameter_fields, data).value

\* get_radius_from_dict_list: the first source with a positive radius
RECURSIVE RadiusFromListAt(_, _)
RadiusFromListAt(dict_list, i) ==
  IF i > Len(dict_list) THEN 0
  ELSE IF get_radius_from_dict(dict_list[i]) > 0 THEN get_radius_from_dict(dict_list[i])
  ELSE RadiusFromListAt(dict_list, i + 1)

get_radius_from_dict_list(dict_list) == RadiusFromListAt(dict_list, 1)

\* get_radius on a list of sources (doubled radius)
get_radius(specs) == get_radius_from_dict_list(specs)

\* get_diameter: 2 * radius
get_diameter(specs) == get_radius(specs)

\* get_height on a list of sources
get_height(specs) == get_float_from_dict_list(height_fields, specs).value

\* the unit named by the matched key of get_rated_power_kw
UnitOfKey(key) ==
  IF key \in {"rated_power_mw", "power_rating_mw", "power_mw", "Maxeffekt (MW)"} THEN "MW"
  ELSE IF key \in {"rated_power_kw", "power_rating_kw", "kw", "power_kw",
                   "nominal power (kW)", "Capacity (kW)"} THEN "KW"
  ELSE None

\* a conversion that guesses the unit from the power alone
PowerToKwWithoutDiameter(power, known_unit, diameter, parts) ==
  IF known_unit \in {"kW", "KW"} THEN power
  ELSE IF known_unit = "MW" THEN power * 1000
  ELSE IF known_unit = "W" \/ (known_unit = None /\ power > 1000000 * parts)
  THEN power \div 1000
  ELSE IF known_unit = None /\ power <= 1000 * parts /\ power > 0 /\ power < 20 * parts
  THEN power * 1000
  ELSE power

\* power_to_kw(power, known_unit, diameter) with the power, and the result,
\* counted in parts of a unit: 1/parts kW, MW or W
PowerToKw(power, known_unit, diameter, parts) ==
  LET by_size ==
        IF known_unit = None /\ diameter # 0
        THEN IF diameter >= 35 /\ power < 1 * parts THEN "MW"
             ELSE IF power < 450 * parts THEN (IF diameter >= 60 THEN "MW" ELSE "kW")
             ELSE None
        ELSE known_unit
      unit ==
        IF by_size = None
        THEN IF power > 1000000 * parts THEN "W"
             ELSE IF power > 1000 * parts THEN "kW"
             ELSE None
        ELSE by_size
  IN IF unit \in {"kW", "KW"} THEN power
     ELSE IF unit = "MW" THEN power * 1000
     ELSE IF unit = "W" THEN power \div 1000
     ELSE IF power > 0 /\ power < 20 * parts THEN power * 1000
     ELSE power

\* power_to_kw(power, known_unit, diameter) on whole numbers
power_to_kw(power, known_unit, diameter) == PowerToKw(power, known_unit, diameter, 1)

\* get_rated_power_kw on a list of sources (0 when there is none)
get_rated_power_kw(specs) ==
  LET found == get_float_from_dict_list(power_fields, specs)
  IN IF found.value = 0 THEN 0
     ELSE power_to_kw(found.value, UnitOfKey(found.key), get_radius_from_dict_list(specs))

(***************************************************************************)
(* ModelDesignationDeriver.enrich_model_designation                        *)
(***************************************************************************)
Abs(x) == IF x < 0 THEN 0 - x ELSE x

RECURSIVE Pow2(_)
Pow2(k) == IF k = 0 THEN 1 ELSE 2 * Pow2(k - 1)

\* abs(rated_power - power) / power < (power / 750 / 100) / 2^k
PowerWithin(rated_power, power, k) ==
  Abs(rated_power - power) <= ((power * power) - 1) \div (75000 * Pow2(k))

\* a stricter diameter tolerance applied whatever it leaves
TightenAlways(turbine_types, diameter, thresshold) ==
  { i \in turbine_types : Abs(Row(i).diameter - diameter) < thresshold }

\* one stricter diameter tolerance, kept only if it leaves a candidate
Tighten(turbine_types, diameter, thresshold) ==
  LET prep == { i \in turbine_types : Abs(Row(i).diameter - diameter) < thresshold }
  IN IF prep # {} THEN prep ELSE turbine_types

\* the while loop that halves the power tolerance; the tolerance is
\* (power / 750 / 100) / 2^k when the loop condition is tested
RECURSIVE HalveLoop(_, _, _)
HalveLoop(turbine_types, power, k) ==
  IF Cardinality(turbine_types) > 1 /\ power >= 750 * Pow2(k)
  THEN LET prep == { i \in turbine_types : PowerWithin(Row(i).rated_power, power, k + 1) }
       IN IF prep # {} THEN HalveLoop(prep, power, k + 2) ELSE turbine_types
  ELSE turbine_types

\* sort_values(by="power_delta", key=abs).iloc[0]: the closest rated power
ClosestPower(turbine_types, power) ==
  CHOOSE i \in turbine_types :
    \A j \in turbine_types :
      \/ Abs(Row(i).rated_power - power) < Abs(Row(j).rated_power - power)
      \/ Abs(Row(i).rated_power - power) = Abs(Row(j).rated_power - power) /\ i <= j

\* turbine_types["model_designation"].mode(): the most frequent designations
Modes(turbine_types) ==
  LET ds == { Row(i).model_designation : i \in turbine_types } \ {None}
      count(d) == Cardinality({ i \in turbine_types : Row(i).model_designation = d })
  IN { d \in ds : \A e \in ds : count(e) <= count(d) }

\* modes.iloc[0]: mode() returns its values sorted
FirstMode(modes) == CHOOSE d \in modes : \A e \in modes : Rank(d) <= Rank(e)

\* the manufacturer filter without the removal of the placeholder designations
FilterManufacturerKeepingPlaceholders(filtered, manufacturer, manufacturer_pattern) ==
  { i \in get_specs_dataframe(filtered) :
      IF manufacturer_pattern # None
      THEN PatternMatches(manufacturer_pattern, Row(i).manufacturer)
      ELSE manufacturer # None => Lower(Row(i).manufacturer) = Lower(manufacturer) }

\* lines 331-341: no placeholder designation, then the parsed manufacturer
FilterManufacturer(filtered, manufacturer, manufacturer_pattern) ==
  { i \in get_specs_dataframe(filtered) :
      /\ ~IsPlaceholder(Row(i).model_designation)
      /\ IF manufacturer_pattern # None
         THEN PatternMatches(manufacturer_pattern, Row(i).manufacturer)
         ELSE manufacturer # None => Lower(Row(i).manufacturer) = Lower(manufacturer) }

\* lines 343-353: abs(diameter - d) < 5 when a diameter is known
FilterDiameter(turbine_types, diameter) ==
  IF diameter # 0
  THEN { i \in turbine_types : Abs(Row(i).diameter - diameter) < 5 }
  ELSE turbine_types

\* lines 355-366: the power tolerance, for an exact power match
FilterPower(turbine_types, power, exact_power_match) ==
  IF power > 0 /\ exact_power_match
  THEN { i \in turbine_types : PowerWithin(Row(i).rated_power, power, 0) }
  ELSE turbine_types

\* a filter that is kept only if the set has several rows and it leaves one
PreferRows(turbine_types, preferred) ==
  IF Cardinality(turbine_types) > 1 /\ preferred # {} THEN preferred ELSE turbine_types

\* lines 368-373: prefer the rows with a rated power
PreferPositivePower(turbine_types) ==
  PreferRows(turbine_types, { i \in turbine_types : Row(i).rated_power > 0 })

\* lines 375-380: prefer the rows with wind-speed data
PreferWindSpeeds(turbine_types) ==
  PreferRows(turbine_types, { i \in turbine_types : Row(i).wind_speeds_length > 0 })

\* lines 382-393: the stricter diameter tolerances 3 and 1
StricterDiameter(turbine_types, diameter) ==
  IF Cardinality(turbine_types) > 1 /\ diameter # 0
  THEN Tighten(Tighten(turbine_types, diameter, 3), diameter, 1)
  ELSE turbine_types

\* lines 395-417: the halved power tolerances
StricterPower(turbine_types, power, exact_power_match) ==
  IF Cardinality(turbine_types) > 1 /\ power > 0 /\ exact_power_match
  THEN HalveLoop(turbine_types, power, 0)
  ELSE turbine_types

\* lines 419-489: the designation picked from the rows that are left
PickDesignation(turbine_types, model_designation, power, exact_power_match) ==
  IF turbine_types # {} /\ power # 0 /\ ~exact_power_match
  THEN Row(ClosestPower(turbine_types, power)).model_designation
  ELSE IF Cardinality(turbine_types) = 1
  THEN Row(CHOOSE i \in turbine_types : TRUE).model_designation
  ELSE IF Cardinality(turbine_types) > 1 /\ Modes(turbine_types) # {}
  THEN FirstMode(Modes(turbine_types))
  ELSE model_designation

\* lines 328-491 for the manufacturer, diameter and power in hand
EnrichWith(model_designation, manufacturer, manufacturer_pattern, diameter, power, row_data_used, exact_power_match, filtered) ==
  IF manufacturer = None /\ diameter = 0 /\ power = 0
  THEN [model_designation |-> model_designation, row_data_used |-> row_data_used]
  ELSE [model_designation |->
          PickDesignation(
            StricterPower(
              StricterDiameter(
                PreferWindSpeeds(
                  PreferPositivePower(
                    FilterPower(
                      FilterDiameter(
                        FilterManufacturer(filtered, manufacturer, manufacturer_pattern),
                        diameter),
                      power, exact_power_match))),
                diameter),
              power, exact_power_match),
            model_designation, power, exact_power_match),
        row_data_used |-> row_data_used]

\* lines 304-316: a diameter or power the name does not give is read from
\* additional_data, and row_data_used tells whether one was found there
EnrichParsed(model_designation, manufacturer, manufacturer_pattern, diameter_parsed, power_parsed, diameter_data, power_data, exact_power_match, filtered) ==
  EnrichWith(model_designation, manufacturer, manufacturer_pattern,
             IF diameter_parsed = 0 THEN diameter_data ELSE diameter_parsed,
             IF power_parsed = 0 THEN power_data ELSE power_parsed,
             (power_parsed = 0 /\ power_data # 0) \/ (diameter_parsed = 0 /\ diameter_data # 0),
             exact_power_match, filtered)

\* lines 300-303: the parsed name
EnrichData(model_designation, data, additional_data, exact_power_match, filtered) ==
  EnrichParsed(model_designation, data.manufacturer, data.manufacturer_pattern,
               get_diameter(<<data>>), get_rated_power_kw(<<data>>),
               get_diameter(<<additional_data>>), get_rated_power_kw(<<additional_data>>),
               exact_power_match, filtered)

enrich_model_designation(model_designation, additional_data, exact_power_match, filtered) ==
  EnrichData(model_designation, parse_model_name(model_designation), additional_data,
             exact_power_match, filtered)

(***************************************************************************)
(* ModelDesignationDeriver.by_turbine_type                                 *)
(***************************************************************************)
\* ModelDesignationDeriver.__init__: precomputed_length_fields
precomputed_length_fields ==
  ( "model_designation" :> "model_designation_length" @@
    "wind_speeds" :> "wind_speeds_length" )

\* the default of sort_field when the caller gives none
DefaultSortField(fields) ==
  IF fields # <<"model_designation">> THEN "model_designation" ELSE "wind_speeds"

\* the result tuple (model_designation, matched_line_index, row_data_used);
\* raised marks the ValueError of the two-name unpacking in the link loop
Result(model_designation, matched_line_index, row_data_used) ==
  [ model_designation |-> model_designation,
    row_data_used |-> row_data_used,
    matched_line_index |-> matched_line_index, raised |-> FALSE ]

Raised ==
  [ model_designation |-> None, row_data_used |-> FALSE,
    matched_line_index |-> NoneIndex, raised |-> TRUE ]

\* the rows whose field equals the type, case-insensitively; on the
\* model_designation field an empty result is retried with the prefixed type
MatchField(specs_df, field, turbine_type) ==
  LET exact == { i \in specs_df : Lower(Row(i)[field]) = Lower(turbine_type) }
      prefixed == { i \in specs_df :
                      Lower(Row(i)[field]) = Lower(ensure_manufacturer_prefix(turbine_type)) }
  IN IF exact = {} /\ field = "model_designation" THEN prefixed ELSE exact

\* turbine_specs[turbine_specs["model_designation"] != ""]
WithDesignation(turbine_specs) ==
  { i \in turbine_specs : Row(i).model_designation # "" }

\* keep only manufacturer data if any row has it
PreferManufacturerData(turbine_specs) ==
  LET turbine_specs_filtered == { i \in turbine_specs : Row(i).is_manufacturer_data }
  IN IF turbine_specs_filtered # {} THEN turbine_specs_filtered ELSE turbine_specs

\* the rows iloc[0] can be after sort_values(by=<length field>,
\* ascending=False): the sort is pandas' default kind, quicksort, which
\* keeps no order among rows of equal length
TopRows(turbine_specs, sort_field) ==
  { i \in turbine_specs :
      \A j \in turbine_specs :
        Row(i)[precomputed_length_fields[sort_field]]
          >= Row(j)[precomputed_length_fields[sort_field]] }

\* iloc[0] for the lookups of this catalog, none of which leaves two rows of
\* the same longest length
TopRow(turbine_specs, sort_field) ==
  CHOOSE i \in TopRows(turbine_specs, sort_field) :
    \A j \in TopRows(turbine_specs, sort_field) : i <= j

\* the first field (from position n) whose rows keep a designation; 0 if none
RECURSIVE FirstDirectField(_, _, _, _)
FirstDirectField(specs_df, fields, turbine_type, n) ==
  IF n > Len(fields) THEN 0
  ELSE IF WithDesignation(MatchField(specs_df, fields[n], turbine_type)) # {} THEN n
  ELSE FirstDirectField(specs_df, fields, turbine_type, n + 1)

\* links: the fields whose rows all have an empty designation, and whether
\* following one reaches a call (a truthy value under another field)
LinkCallReached(specs_df, fields, turbine_type) ==
  \E n \in 1 .. Len(fields) :
    LET result == MatchField(specs_df, fields[n], turbine_type)
    IN /\ result # {}
       /\ WithDesignation(result) = {}
       /\ \E i \in result : \E m \in 1 .. Len(fields) :
            /\ fields[m] # fields[n]
            /\ Row(i)[fields[m]] \notin {None, ""}

RECURSIVE by_turbine_type(_, _, _, _, _)

\* a return of the enriched designation with the index of the row that was
\* enriched, without the lookup of lines 179-191
DirectResultWithoutLookup(field, sort_field, filtered, matched_line_index, rich) ==
  [ model_designation |-> rich.model_designation,
    row_data_used |-> rich.row_data_used,
    matched_line_index |-> matched_line_index, raised |-> FALSE ]

\* lines 179-196: the richest wind_speeds entry of the designation is looked
\* up, unless this already was that lookup and nothing was enriched
DirectResult(field, sort_field, filtered, matched_line_index, rich) ==
  IF ~(field = "model_designation" /\ sort_field = "wind_speeds")
     \/ rich.model_designation # Row(matched_line_index).model_designation
  THEN by_turbine_type(rich.model_designation, <<"model_designation">>,
                       "wind_speeds", NoData, filtered)
  ELSE Result(Row(matched_line_index).model_designation, matched_line_index, FALSE)

\* lines 144-177: the top row; its designation is enriched when the row has
\* no rated power or no wind-speed data
DirectMatch(field, sort_field, row_data, filtered, matched_line_index) ==
  DirectResult(field, sort_field, filtered, matched_line_index,
    IF \/ Row(matched_line_index).rated_power = 0
       \/ Row(matched_line_index).wind_speeds_length = 0
    THEN enrich_model_designation(Row(matched_line_index).model_designation,
                                  row_data, TRUE, filtered)
    ELSE [model_designation |-> Row(matched_line_index).model_designation,
          row_data_used |-> FALSE])

\* the looked-up pair with the caller's row_data_used
WithRowDataUsed(found, local_row_data_used) ==
  IF found.raised THEN Raised
  ELSE Result(found.model_designation, found.matched_line_index, local_row_data_used)

\* lines 267-282: the designation found by enriching is looked up
FallbackResult(turbine_type, filtered, model_designation, local_row_data_used) ==
  IF model_designation \in {turbine_type, None, ""}
  THEN Result(None, NoneIndex, local_row_data_used)
  ELSE WithRowDataUsed(by_turbine_type(model_designation, <<"model_designation">>,
                                       "wind_speeds", NoData, filtered),
                       local_row_data_used)

\* lines 247-263: if the exact power match gives the type back, the
\* non-exact match is tried
FallbackExact(turbine_type, row_data, filtered, exact) ==
  IF exact.model_designation = turbine_type
  THEN FallbackResult(turbine_type, filtered,
         enrich_model_designation(turbine_type, row_data, FALSE, filtered).model_designation,
         TRUE)
  ELSE FallbackResult(turbine_type, filtered, exact.model_designation,
                      exact.row_data_used)

\* lines 82-290 once the first field with a direct match is known (0: none)
ByField(turbine_type, fields, sort_field, row_data, filtered, n) ==
  IF n # 0
  THEN DirectMatch(fields[n], sort_field, row_data, filtered,
         TopRow(PreferManufacturerData(WithDesignation(
                  MatchField(get_specs_dataframe(filtered), fields[n], turbine_type))),
                sort_field))
  ELSE IF LinkCallReached(get_specs_dataframe(filtered), fields, turbine_type)
  THEN Raised
  ELSE FallbackExact(turbine_type, row_data, filtered,
                     enrich_model_designation(turbine_type, row_data, TRUE, filtered))

by_turbine_type(turbine_type, fields, sort_field_arg, row_data, filtered) ==
  ByField(turbine_type, fields,
          IF sort_field_arg = None THEN DefaultSortField(fields) ELSE sort_field_arg,
          row_data, filtered,
          FirstDirectField(get_specs_dataframe(filtered), fields, turbine_type, 1))

(***************************************************************************)
(* DimensionLocationMapper                                                 *)
(***************************************************************************)
\* build_dimension_matches: the candidate models of a diameter, in order
\* (every candidate starts with confidence 10)
build_dimension_matches(diameter) ==
  (IF 88 <= diameter /\ diameter <= 92 THEN <<"V90">>
   ELSE IF 98 <= diameter /\ diameter <= 102 THEN <<"V100">>
   ELSE IF 110 <= diameter /\ diameter <= 114 THEN <<"V112">>
   ELSE IF 116 <= diameter /\ diameter <= 120 THEN <<"V117">>
   ELSE IF 124 <= diameter /\ diameter <= 128 THEN <<"V126">>
   ELSE IF 160 <= diameter /\ diameter <= 168 THEN <<"V164">>
   ELSE << >>)
  \o
  (IF 81 <= diameter /\ diameter <= 83 THEN <<"E82">>
   ELSE IF 99 <= diameter /\ diameter <= 103 THEN <<"E101">>
   ELSE IF 114 <= diameter /\ diameter <= 118 THEN <<"E115">>
   ELSE IF 125 <= diameter /\ diameter <= 130 THEN <<"E126">>
   ELSE IF 135 <= diameter /\ diameter <= 142 THEN <<"E138">>
   ELSE << >>)
  \o
  (IF 106 <= diameter /\ diameter <= 110 THEN <<"SWT-107">>
   ELSE IF 119 <= diameter /\ diameter <= 123 THEN <<"SWT-120">>
   ELSE IF 153 <= diameter /\ diameter <= 157 THEN <<"SWT-154">>
   ELSE << >>)
  \o
  (IF 130 <= diameter /\ diameter <= 134 THEN <<"N131">> ELSE << >>)

\* expected hub heights, in tenths of a metre
expected_height ==
  ( "V90" :> 800 @@ "V100" :> 950 @@ "V112" :> 940 @@ "V117" :> 915 @@
    "V126" :> 1165 @@ "V164" :> 1060 @@ "E82" :> 780 @@ "E101" :> 990 @@
    "E115" :> 1220 @@ "E126" :> 1350 @@ "E138" :> 1310 @@ "SWT-107" :> 900 @@
    "SWT-120" :> 900 @@ "SWT-154" :> 1100 @@ "N131" :> 1140 )

\* expected rated powers, in kW
expected_power ==
  ( "V90" :> 3000 @@ "V100" :> 2600 @@ "V112" :> 3450 @@ "V117" :> 4200 @@
    "V126" :> 3450 @@ "V164" :> 8000 @@ "E82" :> 2000 @@ "E101" :> 3050 @@
    "E115" :> 3200 @@ "E126" :> 4200 @@ "E138" :> 4200 @@ "SWT-107" :> 3600 @@
    "SWT-120" :> 3600 @@ "SWT-154" :> 6000 @@ "N131" :> 3600 )

\* confidence_height: the confidence delta (0 when there is none);
\* height in metres, expected in tenths of a metre
confidence_height(height, expected) ==
  LET height_diff == Abs((10 * height) - expected)
  IN IF height_diff < 50 THEN 5
     ELSE IF height_diff < 150 THEN 2
     ELSE IF height_diff > 300 THEN 0 - 3
     ELSE 0

\* confidence_power: the confidence delta (0 when there is none); both in kW
confidence_power(power, expected) ==
  LET power_diff == Abs(power - expected)
  IN IF power_diff < 300 THEN 5
     ELSE IF power_diff < 800 THEN 2
     ELSE IF power_diff > 2000 THEN 0 - 3
     ELSE 0

\* the confidence of one candidate after all adjustments of map()
Confidence(model, turbine_props) ==
  LET height == get_height(<<turbine_props>>)
      power == get_rated_power_kw(<<turbine_props>>)
      country == turbine_props.country
  IN 10
     + (IF height > 0 THEN confidence_height(height, expected_height[model]) ELSE 0)
     + (IF power > 0 THEN confidence_power(power, expected_power[model]) ELSE 0)
     + (IF turbine_props.is_offshore
        THEN IF model \in {"V164", "SWT-154"} THEN 5
             ELSE IF model \in {"E101", "E82"} THEN 0 - 2 ELSE 0
        ELSE IF model \in {"V164", "SWT-154"} THEN 0 - 3 ELSE 0)
     + (IF country \in {"DE", "DEU", "GERMANY"}
           /\ model \in {"E82", "E101", "E115", "E126", "E138"} THEN 2
        ELSE IF country \in {"DK", "DNK", "DENMARK"}
           /\ model \in {"V90", "V100", "V112", "V117", "V126", "V164"} THEN 2
        ELSE 0)

\* a map that takes the first candidate of the list, unsorted
MapFirstCandidate(turbine_props) ==
  IF build_dimension_matches(get_diameter(<<turbine_props>>)) = << >> THEN None
  ELSE IF Confidence(build_dimension_matches(get_diameter(<<turbine_props>>))[1],
                     turbine_props) >= 8
  THEN build_dimension_matches(get_diameter(<<turbine_props>>))[1]
  ELSE None

\* DimensionLocationMapper.map: the first candidate of highest confidence,
\* if that confidence is at least 8; None otherwise
DimensionLocationMapper_map(turbine_props) ==
  LET dimension_matches == build_dimension_matches(get_diameter(<<turbine_props>>))
      conf(i) == Confidence(dimension_matches[i], turbine_props)
      best == CHOOSE i \in 1 .. Len(dimension_matches) :
                \A j \in 1 .. Len(dimension_matches) :
                  conf(i) > conf(j) \/ (conf(i) = conf(j) /\ i <= j)
  IN IF dimension_matches = << >> THEN None
     ELSE IF conf(best) >= 8 THEN dimension_matches[best]
     ELSE None

(***************************************************************************)
(* TurbineTypeManager.get_specs_by_tower_properties                        *)
(***************************************************************************)
SetMin(S) == CHOOSE x \in S : \A y \in S : x <= y

SetMax(S) == CHOOSE x \in S : \A y \in S : y <= x

\* a range test that lets every value through to the scoring
InRangeKeepAll(value, column) == value

\* a value outside the range of the reference column is not used
InRange(value, column) ==
  IF value # 0 /\ SetMin(column) <= value /\ value <= SetMax(column) THEN value ELSE 0

\* scores[col] / max_val if max_val > 0: the divisor of a score column
NormOf(max_val) == IF max_val > 0 THEN max_val ELSE 1

\* the largest distance of a column of the view to the value
MaxScore(filtered_df, column, value) ==
  NormOf(SetMax({ Abs(Row(i)[column] - value) : i \in filtered_df }))

\* the weighted normalised distances of a row, times twice the product of
\* the column maxima: weights 3.0, 1.5 and 2.0
MainScore(i, diameter, height, power, max_d, max_h, max_p) ==
  (IF diameter # 0 THEN 6 * Abs(Row(i).diameter - diameter) * max_h * max_p ELSE 0)
  + (IF height # 0 THEN 3 * Abs(Row(i).height - height) * max_d * max_p ELSE 0)
  + (IF power # 0 THEN 4 * Abs(Row(i).rated_power - power) * max_d * max_h ELSE 0)

\* the 1e-6 terms of a row, times the product of their maxima
TinyScore(i, diameter, power, max_d, max_p) ==
  (IF diameter = 0 THEN Abs(Row(i).diameter - diameter) * max_p ELSE 0)
  + (IF power = 0 THEN Abs(Row(i).rated_power - power) * max_d ELSE 0)

\* total_score of row i below that of row j
ScoreLess(i, j, diameter, height, power, max_d, max_h, max_p) ==
  \/ MainScore(i, diameter, height, power, max_d, max_h, max_p)
       < MainScore(j, diameter, height, power, max_d, max_h, max_p)
  \/ /\ MainScore(i, diameter, height, power, max_d, max_h, max_p)
          = MainScore(j, diameter, height, power, max_d, max_h, max_p)
     /\ TinyScore(i, diameter, power, max_d, max_p)
          < TinyScore(j, diameter, power, max_d, max_p)

\* scores["total_score"].idxmin(): the first row with the lowest total score
IdxMin(filtered_df, diameter, height, power, max_d, max_h, max_p) ==
  CHOOSE i \in filtered_df :
    \A j \in filtered_df :
      \/ ScoreLess(i, j, diameter, height, power, max_d, max_h, max_p)
      \/ /\ ~ScoreLess(j, i, diameter, height, power, max_d, max_h, max_p)
         /\ i <= j

\* the entry at the matched line index, with the index
MatchedEntry(matched_line_index) ==
  [matched_line_index |-> matched_line_index,
   specs |-> get_specs_by_line_index(matched_line_index)]

\* lines 133-191 for the values that lie in the range of their column
ClosestEntry(filtered_df, diameter, height, power) ==
  IF (diameter = 0 /\ height = 0 /\ power = 0) \/ filtered_df = {}
  THEN [matched_line_index |-> NoneIndex, specs |-> NoData]
  ELSE MatchedEntry(IdxMin(filtered_df, diameter, height, power,
                           MaxScore(filtered_df, "diameter", diameter),
                           MaxScore(filtered_df, "height", height),
                           MaxScore(filtered_df, "rated_power", power)))

\* a column of the view
Column(filtered_df, column) == { Row(i)[column] : i \in filtered_df }

get_specs_by_tower_properties(diameter_arg, height_arg, power_arg) ==
  ClosestEntry(get_specs_dataframe(TRUE),
               InRange(diameter_arg, Column(get_specs_dataframe(TRUE), "diameter")),
               InRange(height_arg, Column(get_specs_dataframe(TRUE), "height")),
               InRange(power_arg, Column(get_specs_dataframe(TRUE), "rated_power")))

(***************************************************************************)
(* ProbabilisticMapper.map and DefaultTurbineSelector.get_default_turbine  *)
(***************************************************************************)
\* int(md5(f"{turbine_type}_{round(lat, 1)}_{round(lon, 1)}"), 16), reduced
\* modulo a common multiple of the lengths of all the lists it indexes
hash_value(turbine_type, lat, lon) == HashTable[<<turbine_type, lat, lon>>]

\* the diameter read from the digits of a 4- or 5-character type (0 if none)
first_part(turbine_type) == FirstPartTable[turbine_type]

\* the diameter a model name carries (0 if none)
model_diameter(model) == ModelDiameterTable[model]

\* the common models within tol of the diameter, in list order
diameter_models(diameter, tol) ==
  SelectSeq(common_models,
            LAMBDA model : /\ model_diameter(model) > 0
                           /\ Abs(model_diameter(model) - diameter) <= tol)

tolerances == << 0, 1, 3, 5, 15 >>

\* a loop that only looks at the widest tolerance
DiameterPickWidest(diameter, hash, n) ==
  IF diameter_models(diameter, tolerances[Len(tolerances)]) = << >> THEN None
  ELSE diameter_models(diameter, tolerances[Len(tolerances)])
         [(hash % Len(diameter_models(diameter, tolerances[Len(tolerances)]))) + 1]

\* the tolerance loop: the pick of the first tolerance with a model, or None
RECURSIVE DiameterPick(_, _, _)
DiameterPick(diameter, hash, n) ==
  IF n > Len(tolerances) THEN None
  ELSE LET models == diameter_models(diameter, tolerances[n])
       IN IF models # << >> THEN models[(hash % Len(models)) + 1]
          ELSE DiameterPick(diameter, hash, n + 1)

\* seq repeated times times
RECURSIVE Repeat(_, _)
Repeat(seq, times) == IF times = 0 THEN << >> ELSE seq \o Repeat(seq, times - 1)

\* the offshore boxes and the coarse region test (hundredths of a degree)
PM_is_offshore(lat, lon) ==
  /\ \/ (-500 <= lon /\ lon <= 1200 /\ 5100 <= lat /\ lat <= 6000)
     \/ (1000 <= lon /\ lon <= 3000 /\ 5400 <= lat /\ lat <= 6600)
     \/ (0 <= lon /\ lon <= 2000 /\ 3600 <= lat /\ lat <= 4500)
  /\ \/ (lon > 300 /\ lat > 5300)
     \/ (lon > 1200 /\ lat > 5400)
     \/ (lon > 0 /\ lat < 4300)

\* the regional model list of a location (empty: region not identified)
regional_models(lat, lon) ==
  IF PM_is_offshore(lat, lon)
  THEN Repeat(<<"V164", "V174", "SWT-154", "SG-D8", "Senvion-6M", "Siemens-D7">>, 3)
       \o <<"V150", "E126", "SWT-130", "N149">>
  ELSE IF lat > 5200 /\ 0 < lon /\ lon < 2000
  THEN Repeat(<<"V90", "V100", "V112", "V117", "V126", "V136">>, 2)
       \o <<"N131", "N149", "E101", "E115", "E126">>
  ELSE IF 4700 < lat /\ lat < 5200 /\ 500 < lon /\ lon < 2000
  THEN Repeat(<<"E82", "E101", "E115", "E126", "E138">>, 2)
       \o <<"V90", "V112", "N131", "SG-132">>
  ELSE IF 4700 < lat /\ lat < 5200 /\ -500 < lon /\ lon < 500
  THEN Repeat(<<"V90", "V100", "V112">>, 2)
       \o <<"GE-1.5", "GE-2.5", "E82", "E101", "MM100">>
  ELSE IF 5000 < lat /\ lat < 6000 /\ -1000 < lon /\ lon < 200
  THEN Repeat(<<"V80", "V90", "V100", "V112">>, 2)
       \o <<"SWT-107", "SWT-120", "E82", "N90">>
  ELSE IF 3600 < lat /\ lat < 4700 /\ -1000 < lon /\ lon < 2000
  THEN <<"V90", "G58", "G80", "GE-1.5", "MM82", "SG-114", "V100", "E82">>
  ELSE << >>

\* a mapper that goes to the regional lists without looking at the diameter
MapIgnoringDiameter(turbine_type, lat, lon, diameter_arg) ==
  IF regional_models(lat, lon) = << >>
  THEN common_models[(hash_value(turbine_type, lat, lon) % Len(common_models)) + 1]
  ELSE regional_models(lat, lon)[(hash_value(turbine_type, lat, lon)
                                   % Len(regional_models(lat, lon))) + 1]

\* ProbabilisticMapper.map(turbine_type, lat, lon, diameter)
ProbabilisticMapper_map(turbine_type, lat, lon, diameter_arg) ==
  LET hash == hash_value(turbine_type, lat, lon)
      base_model == common_models[(hash % Len(common_models)) + 1]
      diameter == IF first_part(turbine_type) # 0 THEN first_part(turbine_type)
                  ELSE diameter_arg
      by_diameter == IF diameter # 0 THEN DiameterPick(diameter, hash, 1) ELSE None
      regional == regional_models(lat, lon)
  IN IF by_diameter # None THEN by_diameter
     ELSE IF regional = << >> THEN base_model
     ELSE regional[(hash % Len(regional)) + 1]

\* DefaultTurbineSelector.get_default_turbine(lat, lon)
get_default_turbine(lat, lon) == DefaultTurbineTable[<<lat, lon>>]

(***************************************************************************)
(* TurbineMatcher: the cache and the plausibility check                    *)
(***************************************************************************)
\* add_to_cache with the dict rebuilt from the new items (earlier keys are lost)
add_to_cache_rebuilding(cache, turbine_type, model_designation, matched_line_index) ==
  [ item \in { turbine_type[n] : n \in 1 .. Len(turbine_type) } |->
      [model_designation |-> model_designation,
       matched_line_index |-> matched_line_index] ]

\* add_to_cache that stops after the first item of the list
add_to_cache_first_item(cache, turbine_type, model_designation, matched_line_index) ==
  IF turbine_type = << >> \/ Head(turbine_type) \in DOMAIN cache THEN cache
  ELSE cache @@ (Head(turbine_type) :>
                   [model_designation |-> model_designation,
                    matched_line_index |-> matched_line_index])

\* add_to_cache: every item that is not yet a key gets the pair
RECURSIVE add_to_cache(_, _, _, _)
add_to_cache(cache, turbine_type, model_designation, matched_line_index) ==
  IF turbine_type = << >> THEN cache
  ELSE LET item == Head(turbine_type)
           pair == [model_designation |-> model_designation,
                    matched_line_index |-> matched_line_index]
       IN add_to_cache(IF item \in DOMAIN cache THEN cache ELSE cache @@ (item :> pair),
                       Tail(turbine_type), model_designation, matched_line_index)

\* tower_implements_turbine_type with the sources in the other order
tower_implements_type_first(tower_properties, matched_line_index) ==
  LET type_specs == get_specs_by_line_index(matched_line_index)
      sources == <<type_specs, tower_properties>>
  IN get_radius(sources) < 2 * get_height(sources)

\* tower_implements_turbine_type: radius < height over [tower, type_specs]
tower_implements_turbine_type(tower_properties, matched_line_index) ==
  LET type_specs == get_specs_by_line_index(matched_line_index)
      sources == <<tower_properties, type_specs>>
      radius == get_radius(sources)
      height == get_height(sources)
  IN radius < 2 * height

\* tower_implements_cached_type without the check
tower_implements_cached_unchecked(cache, tower_properties, cached_turbine_type) == TRUE

\* tower_implements_cached_type
tower_implements_cached_type(cache, tower_properties, cached_turbine_type) ==
  tower_implements_turbine_type(tower_properties,
                                cache[cached_turbine_type].matched_line_index)

\* lines 111-122: the deriver's result, a designation or (None, None)
DerivedPair(found) ==
  IF found.raised THEN Raised
  ELSE IF found.model_designation \notin {None, ""}
  THEN Result(found.model_designation, found.matched_line_index, FALSE)
  ELSE Result(None, NoneIndex, FALSE)

\* _turbine_type_to_model_designation: the cached pair, else the deriver
turbine_type_to_model_designation(cache, turbine_type) ==
  IF turbine_type \in DOMAIN cache
  THEN Result(cache[turbine_type].model_designation,
              cache[turbine_type].matched_line_index, FALSE)
  ELSE DerivedPair(by_turbine_type(turbine_type,
                     <<"model_designation", "type_id", "type_code", "turbine_model">>,
                     None, NoData, FALSE))

(***************************************************************************)
(* The turbine records match() iterates over                               *)
(***************************************************************************)
\* the longest batch of records one run of match() processes
MaxTurbines == 2

\* (latitude, longitude, country, is_offshore) of the sites
Locations ==
  { [latitude |-> 5237, longitude |-> 489, country |-> "NL", is_offshore |-> FALSE],
    [latitude |-> 5450, longitude |-> 700, country |-> "DE", is_offshore |-> TRUE] }

Manufacturers == { None, "Vestas" }

\* the float nan pandas gives an empty cell: a value that is not None and
\* has no len()
nan == "nan"

Types == { None, "T1", "V52", "Vestas T1", nan }

Diameters == { 0, 90 }

HubHeights == { 0, 42 }

PowerRatings == { 0, 3000 }

\* a row of the turbine locations DataFrame
Records ==
  { [ manufacturer |-> m, diameter |-> d, latitude |-> l.latitude, longitude |-> l.longitude,
      country |-> l.country, is_offshore |-> l.is_offshore, type |-> t,
      hub_height |-> h, power_rating |-> p ] :
    m \in Manufacturers, t \in Types, d \in Diameters, h \in HubHeights,
    p \in PowerRatings, l \in Locations }

\* config["matcher"]["forbidden_types"]: the default, no forbidden type
forbidden_types == {}

\* by_turbine_type's default fields
default_fields == << "type_id", "type_code", "turbine_model", "model_designation" >>

\* manufacturer.split(" "): the first two words of the manufacturer
man_code(manufacturer) == ManCodeTable[manufacturer]

\* f"{man_code} {turbine_type}" unless the type already starts with man_code
build_extended_type(manufacturer, turbine_type) ==
  IF turbine_type # None /\ manufacturer # None
     /\ ~StartsWith(turbine_type, man_code(manufacturer))
  THEN man_code(manufacturer) \o " " \o turbine_type
  ELSE None

\* truthiness of a designation
Truthy(model_designation) == model_designation \notin {None, ""}

VARIABLES
  use_probabilistic_mapper, \* config["matcher"]["use_probabilistic_mapper"]
  use_default_selector,     \* config["matcher"]["use_default_selector"]
  match_cache,              \* self.match_cache: key -> (designation, line index)
  counter_global,           \* match(): tag -> count
  counter_per_country,      \* match(): country -> tag -> count
  turbine_counter,          \* match(): records taken from the batch so far
  turbine,                  \* the record being processed
  stored,                   \* the columns match() wrote for the last record
  manufacturer,             \* local of match_model_designation_on_turbine
  turbine_type,             \* local: the bare type, None once distrusted
  extended_type,            \* local: the manufacturer-qualified type
  model_designation,        \* the returned triple ...
  matched_line_index,
  used_matcher,
  attempted,                \* history: the stages that ran a lookup, in order
  rejected,                 \* history: the stages whose candidate failed the check
  pc,
  writer_pc,                \* add_to_cache calls in flight: the position of each
  writer_call,              \* ... and its arguments, the items still to be added
  load_calls,               \* TurbineTypeManager: load_type_specs calls so far
  self_specs_files,         \* self.specs_files
  self_specs_df_full,       \* self.specs_df_full: the rows, by line index + 1
  self_specs_df_filtered,   \* self.specs_df_filtered: index label -> row
  call_args,                \* a call of a function of its arguments alone: the arguments
  call_result               \* ... and what it returned

config == << use_probabilistic_mapper, use_default_selector >>

counters == << counter_global, counter_per_country >>

locals == << manufacturer, turbine_type, extended_type >>

returned == << model_designation, matched_line_index, used_matcher >>

history == << attempted, rejected >>

writers == << writer_pc, writer_call >>

loader == << load_calls, self_specs_files, self_specs_df_full, self_specs_df_filtered >>

calls == << call_args, call_result >>

\* the state match() does not touch
others == << writers, loader, calls >>

\* no call made
NoArgs == [k \in {} |-> 0]

vars ==
  << config, match_cache, counters, turbine_counter, turbine, stored, locals,
     returned, history, pc, writers, loader, calls >>

EmptyDict == [k \in {} |-> 0]

\* the callers that may be inside add_to_cache at the same time
Writers == { 1, 2 }

\* no call in flight
NoCall ==
  [ model_designation |-> None, matched_line_index |-> NoneIndex,
    turbine_type |-> << >> ]

Init ==
  /\ use_probabilistic_mapper \in BOOLEAN
  /\ use_default_selector \in BOOLEAN
  /\ match_cache = EmptyDict
  /\ counter_global = EmptyDict
  /\ counter_per_country = EmptyDict
  /\ turbine_counter = 0
  /\ turbine = NoData
  /\ stored = NoData
  /\ manufacturer = None
  /\ turbine_type = None
  /\ extended_type = None
  /\ model_designation = None
  /\ matched_line_index = NoneIndex
  /\ used_matcher = None
  /\ attempted = << >>
  /\ rejected = {}
  /\ pc = "idle"
  /\ writer_pc = [w \in Writers |-> "idle"]
  /\ writer_call = [w \in Writers |-> NoCall]
  /\ load_calls = 1
  /\ self_specs_files = << SpecsFile >>
  /\ self_specs_df_full = specs_df_full
  /\ self_specs_df_filtered = FilterSpecs(specs_df_full)
  /\ call_args = NoArgs
  /\ call_result = None

\* match(): the set-up before the loop (the cache and the counters are reset)
StartMatch ==
  /\ pc \in {"idle", "done"}
  /\ match_cache' = EmptyDict
  /\ counter_global' = EmptyDict
  /\ counter_per_country' = EmptyDict
  /\ turbine_counter' = 0
  /\ turbine' = NoData
  /\ stored' = NoData
  /\ manufacturer' = None
  /\ turbine_type' = None
  /\ extended_type' = None
  /\ model_designation' = None
  /\ matched_line_index' = NoneIndex
  /\ used_matcher' = None
  /\ attempted' = << >>
  /\ rejected' = {}
  /\ pc' = "loop"
  /\ UNCHANGED << config, others, loader >>

\* utils.empty_to_none: len(data) of a value that is not None raises
\* TypeError if the value has no len()
empty_to_none_raises(data) == data = nan

\* the read of a record that swallows the exception: the loop goes on
ReadRecordSwallowing(row) ==
  IF empty_to_none_raises(row.manufacturer) \/ empty_to_none_raises(row.type)
  THEN /\ pc' = "loop"
       /\ UNCHANGED << manufacturer, turbine_type >>
  ELSE /\ manufacturer' = Strip(row.manufacturer)
       /\ turbine_type' = IF Strip(row.type) \in forbidden_types THEN None
                          ELSE Strip(row.type)
       /\ pc' = "opt1"

\* lines 391-411: the manufacturer and the type are read from the record; an
\* exception leaves match() through its except clause, which logs and re-raises
ReadRecord(row) ==
  IF empty_to_none_raises(row.manufacturer) \/ empty_to_none_raises(row.type)
  THEN /\ pc' = "raised"
       /\ UNCHANGED << manufacturer, turbine_type >>
  ELSE /\ manufacturer' = Strip(row.manufacturer)
       /\ turbine_type' = IF Strip(row.type) \in forbidden_types THEN None
                          ELSE Strip(row.type)
       /\ pc' = "opt1"

\* the loop takes the next record; match_model_designation_on_turbine reads
\* its manufacturer and type
NextTurbine ==
  /\ pc = "loop"
  /\ turbine_counter < MaxTurbines
  /\ \E row \in Records :
       /\ turbine' = row
       /\ ReadRecord(row)
  /\ turbine_counter' = turbine_counter + 1
  /\ extended_type' = None
  /\ attempted' = << >>
  /\ rejected' = {}
  /\ UNCHANGED << config, others, match_cache, counters, stored, returned >>

\* return model_designation, matched_line_index, used_matcher
Return(designation, line_index, tag) ==
  /\ model_designation' = designation
  /\ matched_line_index' = line_index
  /\ used_matcher' = tag
  /\ pc' = "ret"

\* the stage is left without a result
Continue(next) ==
  /\ pc' = next
  /\ UNCHANGED returned

\* Option 1 that keeps the bare type after a rejected cache hit
Option1KeepsType ==
  /\ pc = "opt1"
  /\ IF turbine_type # None /\ turbine_type \in DOMAIN match_cache
        /\ tower_implements_cached_type(match_cache, turbine, turbine_type)
     THEN /\ attempted' = Append(attempted, "Option1")
          /\ Return(match_cache[turbine_type].model_designation,
                    match_cache[turbine_type].matched_line_index,
                    "CacheHit(TurbineType)")
          /\ UNCHANGED << turbine_type, extended_type, rejected >>
     ELSE /\ attempted' = IF turbine_type # None /\ turbine_type \in DOMAIN match_cache
                          THEN Append(attempted, "Option1") ELSE attempted
          /\ rejected' = IF turbine_type # None /\ turbine_type \in DOMAIN match_cache
                         THEN rejected \cup {"Option1"} ELSE rejected
          /\ extended_type' = build_extended_type(manufacturer, turbine_type)
          /\ Continue("opt2")
          /\ UNCHANGED turbine_type
  /\ UNCHANGED << config, others, match_cache, counters, turbine_counter, turbine, stored,
                  manufacturer >>

\* [Option 1] the bare type in the cache, then the extended type is built
Option1 ==
  /\ pc = "opt1"
  /\ IF turbine_type # None /\ turbine_type \in DOMAIN match_cache
     THEN /\ attempted' = Append(attempted, "Option1")
          /\ IF tower_implements_cached_type(match_cache, turbine, turbine_type)
             THEN /\ Return(match_cache[turbine_type].model_designation,
                            match_cache[turbine_type].matched_line_index,
                            "CacheHit(TurbineType)")
                  /\ UNCHANGED << turbine_type, extended_type, rejected >>
             ELSE /\ turbine_type' = None
                  /\ extended_type' = None
                  /\ rejected' = rejected \cup {"Option1"}
                  /\ Continue("opt2")
     ELSE /\ extended_type' = build_extended_type(manufacturer, turbine_type)
          /\ Continue("opt2")
          /\ UNCHANGED << turbine_type, history >>
  /\ UNCHANGED << config, others, match_cache, counters, turbine_counter, turbine, stored,
                  manufacturer >>

\* [Option 2] the extended type in the cache
Option2 ==
  /\ pc = "opt2"
  /\ IF extended_type # None /\ extended_type \in DOMAIN match_cache
     THEN /\ attempted' = Append(attempted, "Option2")
          /\ IF tower_implements_cached_type(match_cache, turbine, extended_type)
             THEN /\ Return(match_cache[extended_type].model_designation,
                            match_cache[extended_type].matched_line_index,
                            "CacheHit(Manufacturer+TurbineType)")
                  /\ UNCHANGED << extended_type, rejected >>
             ELSE /\ extended_type' = None
                  /\ rejected' = rejected \cup {"Option2"}
                  /\ Continue("opt3")
     ELSE /\ Continue("opt3")
          /\ UNCHANGED << extended_type, history >>
  /\ UNCHANGED << config, others, match_cache, counters, turbine_counter, turbine, stored,
                  manufacturer, turbine_type >>

\* a resolver stage that accepts whatever the lookup returns, designation or not
ResolverStageAnyDesignation(stage, key, cache_keys, tag, next) ==
  LET r == by_turbine_type(key, default_fields, None, turbine, FALSE)
  IN /\ attempted' = Append(attempted, stage)
     /\ IF tower_implements_turbine_type(turbine, r.matched_line_index)
        THEN /\ match_cache' = add_to_cache(match_cache, cache_keys,
                                            r.model_designation, r.matched_line_index)
             /\ Return(r.model_designation, r.matched_line_index, tag)
             /\ UNCHANGED rejected
        ELSE /\ rejected' = IF Truthy(r.model_designation)
                            THEN rejected \cup {stage} ELSE rejected
             /\ Continue(next)
             /\ UNCHANGED match_cache

\* a resolver stage that caches the candidate before it checks it
ResolverStageCachesFirst(stage, key, cache_keys, tag, next) ==
  LET r == by_turbine_type(key, default_fields, None, turbine, FALSE)
  IN /\ attempted' = Append(attempted, stage)
     /\ match_cache' = IF Truthy(r.model_designation)
                       THEN add_to_cache(match_cache, cache_keys,
                                         r.model_designation, r.matched_line_index)
                       ELSE match_cache
     /\ IF Truthy(r.model_designation)
           /\ tower_implements_turbine_type(turbine, r.matched_line_index)
        THEN /\ Return(r.model_designation, r.matched_line_index, tag)
             /\ UNCHANGED rejected
        ELSE /\ rejected' = IF Truthy(r.model_designation)
                            THEN rejected \cup {stage} ELSE rejected
             /\ Continue(next)

\* lines 467-487: a plausible candidate is cached under cache_keys and
\* returned, any other result leaves the stage to the next one
ResolverResult(stage, found, cache_keys, tag, next) ==
  /\ attempted' = Append(attempted, stage)
  /\ IF found.raised
     THEN /\ pc' = "raised"
          /\ UNCHANGED << match_cache, returned, rejected >>
     ELSE IF Truthy(found.model_designation)
             /\ tower_implements_turbine_type(turbine, found.matched_line_index)
     THEN /\ match_cache' = add_to_cache(match_cache, cache_keys,
                                         found.model_designation,
                                         found.matched_line_index)
          /\ Return(found.model_designation, found.matched_line_index, tag)
          /\ UNCHANGED rejected
     ELSE /\ rejected' = IF Truthy(found.model_designation)
                         THEN rejected \cup {stage} ELSE rejected
          /\ Continue(next)
          /\ UNCHANGED match_cache

\* a resolver stage: the lookup of key with the record as row_data
ResolverStage(stage, key, cache_keys, tag, next) ==
  ResolverResult(stage, by_turbine_type(key, default_fields, None, turbine, FALSE),
                 cache_keys, tag, next)

Skip(next) ==
  /\ Continue(next)
  /\ UNCHANGED << match_cache, history >>

\* [Option 3] the resolver on the extended type
Option3 ==
  /\ pc = "opt3"
  /\ IF turbine_type # None /\ extended_type # None
     THEN ResolverStage("Option3", extended_type, <<extended_type, turbine_type>>,
                        "DatabaseLookup(Manufacturer+TurbineType)", "opt4")
     ELSE Skip("opt4")
  /\ UNCHANGED << config, others, counters, turbine_counter, turbine, stored, locals >>

\* Option 4 nested under the test of the extended type
Option4Nested ==
  /\ pc = "opt4"
  /\ IF turbine_type # None /\ extended_type # None
     THEN ResolverStage("Option4", turbine_type, <<turbine_type>>,
                        "DatabaseLookup(TurbineType)", "opt3b")
     ELSE Skip("opt3b")
  /\ UNCHANGED << config, others, counters, turbine_counter, turbine, stored, locals >>

\* [Option 4] the resolver on the bare type
Option4 ==
  /\ pc = "opt4"
  /\ IF turbine_type # None
     THEN ResolverStage("Option4", turbine_type, <<turbine_type>>,
                        "DatabaseLookup(TurbineType)", "opt3b")
     ELSE Skip("opt3b")
  /\ UNCHANGED << config, others, counters, turbine_counter, turbine, stored, locals >>

\* the value enrich_model_designation returns to the cascade: the tuple
\* (model_designation_enriched, row_data_used), used as a type and as a key
enriched_type(type) ==
  LET e == enrich_model_designation(type, turbine, TRUE, TRUE)
  IN TupleStr(e.model_designation, e.row_data_used)

\* an enriched stage: the resolver on the enriched value, if it differs from
\* the type it was built from; the enriched value is the first key cached
EnrichedStage(stage, type, enriched, cache_keys, next) ==
  IF enriched # type
  THEN ResolverStage(stage, enriched, <<enriched>> \o cache_keys,
                     "DatabaseLookup(EnrichedTurbineType)", next)
  ELSE Skip(next)

\* [Option 3b] the resolver on the enriched extended type
Option3b ==
  /\ pc = "opt3b"
  /\ IF turbine_type # None /\ extended_type # None
        /\ parse_model_name(extended_type).is_known_manufacturer
     THEN EnrichedStage("Option3b", extended_type, enriched_type(extended_type),
                        <<extended_type, turbine_type>>, "opt4b")
     ELSE Skip("opt4b")
  /\ UNCHANGED << config, others, counters, turbine_counter, turbine, stored, locals >>

\* [Option 4b] the resolver on the enriched bare type
Option4b ==
  /\ pc = "opt4b"
  /\ IF turbine_type # None /\ parse_model_name(turbine_type).is_known_manufacturer
     THEN EnrichedStage("Option4b", turbine_type, enriched_type(turbine_type),
                        <<turbine_type>>, "opt5")
     ELSE Skip("opt5")
  /\ UNCHANGED << config, others, counters, turbine_counter, turbine, stored, locals >>

\* lines 608-619: a designation found for the guess is cached under the
\* guessed code and returned
GuessResult(guess, found, tag, next) ==
  IF found.raised
  THEN /\ pc' = "raised"
       /\ UNCHANGED << match_cache, returned >>
  ELSE IF Truthy(found.model_designation)
  THEN /\ match_cache' = add_to_cache(match_cache, <<guess>>,
                                      found.model_designation,
                                      found.matched_line_index)
       /\ Return(found.model_designation, found.matched_line_index, tag)
  ELSE /\ Continue(next)
       /\ UNCHANGED match_cache

\* a stage that guesses a type code and translates it with
\* _turbine_type_to_model_designation; only the guessed code is cached
GuessStage(stage, guess, tag, next) ==
  /\ attempted' = Append(attempted, stage)
  /\ UNCHANGED rejected
  /\ IF guess = None
     THEN /\ Continue(next)
          /\ UNCHANGED match_cache
     ELSE GuessResult(guess, turbine_type_to_model_designation(match_cache, guess),
                      tag, next)

\* [Option 5] the dimension/location mapper
Option5 ==
  /\ pc = "opt5"
  /\ GuessStage("Option5", DimensionLocationMapper_map(turbine),
                "DimensionLocationMapper", "opt6")
  /\ UNCHANGED << config, others, counters, turbine_counter, turbine, stored, locals >>

\* lines 630-645: the designation of the closest entry, if it has one
TowerPropertiesResult(found) ==
  IF found.specs # NoData /\ Truthy(found.specs.model_designation)
  THEN Return(found.specs.model_designation, found.matched_line_index,
              "DatabaseLookup(TowerProperties)")
  ELSE Continue("opt7")

\* [Option 6] the tower properties
Option6 ==
  /\ pc = "opt6"
  /\ IF ~(turbine.diameter = 0 /\ turbine.hub_height = 0 /\ turbine.power_rating = 0)
     THEN /\ attempted' = Append(attempted, "Option6")
          /\ UNCHANGED rejected
          /\ TowerPropertiesResult(
               get_specs_by_tower_properties(turbine.diameter, turbine.hub_height,
                                             turbine.power_rating))
     ELSE /\ Continue("opt7")
          /\ UNCHANGED history
  /\ UNCHANGED << config, others, match_cache, counters, turbine_counter, turbine, stored,
                  locals >>

\* Option 7 that runs the probabilistic mapper whatever the configuration says
Option7Unconditional ==
  /\ pc = "opt7"
  /\ GuessStage("Option7",
                ProbabilisticMapper_map(turbine_type, turbine.latitude,
                                        turbine.longitude, turbine.diameter),
                "ProbabilisticMapper", "opt8")
  /\ UNCHANGED << config, others, counters, turbine_counter, turbine, stored, locals >>

\* Option 7 with a mapper whose guess changes with the number of records
\* mapped before: the type is left out of the hash after the first record
Option7PerCall ==
  /\ pc = "opt7"
  /\ IF use_probabilistic_mapper
     THEN GuessStage("Option7",
                     ProbabilisticMapper_map(
                       IF turbine_counter = 1 THEN turbine_type ELSE None,
                       turbine.latitude, turbine.longitude, turbine.diameter),
                     "ProbabilisticMapper", "opt8")
     ELSE Skip("opt8")
  /\ UNCHANGED << config, others, counters, turbine_counter, turbine, stored, locals >>

\* [Option 7] the probabilistic mapper
Option7 ==
  /\ pc = "opt7"
  /\ IF use_probabilistic_mapper
     THEN GuessStage("Option7",
                     ProbabilisticMapper_map(turbine_type, turbine.latitude,
                                             turbine.longitude, turbine.diameter),
                     "ProbabilisticMapper", "opt8")
     ELSE Skip("opt8")
  /\ UNCHANGED << config, others, counters, turbine_counter, turbine, stored, locals >>

\* [Option 8] the default turbine selector
Option8 ==
  /\ pc = "opt8"
  /\ IF use_default_selector
     THEN GuessStage("Option8",
                     get_default_turbine(turbine.latitude, turbine.longitude),
                     "DefaultTurbineSelector", "final")
     ELSE Skip("final")
  /\ UNCHANGED << config, others, counters, turbine_counter, turbine, stored, locals >>

\* the final option returning without a tag
FinalOptionUntagged ==
  /\ pc = "final"
  /\ Return(None, NoneIndex, None)
  /\ UNCHANGED << config, others, match_cache, counters, turbine_counter, turbine, stored,
                  locals, history >>

\* Final option: return None, None, "NotMatched"
FinalOption ==
  /\ pc = "final"
  /\ Return(None, NoneIndex, "NotMatched")
  /\ UNCHANGED << config, others, match_cache, counters, turbine_counter, turbine, stored,
                  locals, history >>

\* the count that is set to 1 whether or not the tag was counted before
CountOverwriting(counter, tag) ==
  [ t \in DOMAIN counter \cup {tag} |-> IF t = tag THEN 1 ELSE counter[t] ]

\* counter[used_matcher] += 1, or = 1 for a new tag
Count(counter, tag) ==
  IF tag \in DOMAIN counter THEN [counter EXCEPT ![tag] = @ + 1]
  ELSE counter @@ (tag :> 1)

\* match(): the columns are written and the counters updated (lines 247-276)
StoreResult ==
  /\ pc = "ret"
  /\ LET type_props == get_specs_by_line_index(matched_line_index)
         sources == <<turbine, type_props>>
         country == turbine.country
         per_country == IF country \in DOMAIN counter_per_country
                        THEN counter_per_country
                        ELSE counter_per_country @@ (country :> EmptyDict)
     IN /\ stored' =
             [ model_designation |-> model_designation,
               diameter |-> get_diameter(sources),
               matched_line_index |->
                 IF matched_line_index \in {NoneIndex, 0} THEN no_match_idx
                 ELSE matched_line_index,
               hub_height |-> get_height(sources),
               power_rating |-> get_rated_power_kw(sources),
               radius |-> get_radius(sources),
               MatchedBy |-> used_matcher ]
        /\ counter_global' = Count(counter_global, used_matcher)
        /\ counter_per_country' =
             [per_country EXCEPT ![country] = Count(@, used_matcher)]
  /\ pc' = "loop"
  /\ UNCHANGED << config, others, match_cache, turbine_counter, turbine, locals, returned,
                  history >>

\* the loop is over: _write_statistics_reports, and match() returns
WriteStatistics ==
  /\ pc = "loop"
  /\ pc' = "done"
  /\ UNCHANGED << config, others, match_cache, counters, turbine_counter, turbine, stored,
                  locals, returned, history >>

Next ==
  \/ StartMatch
  \/ NextTurbine
  \/ Option1
  \/ Option2
  \/ Option3
  \/ Option4
  \/ Option3b
  \/ Option4b
  \/ Option5
  \/ Option6
  \/ Option7
  \/ Option8
  \/ FinalOption
  \/ StoreResult
  \/ WriteStatistics

Spec == Init /\ [][Next]_vars


(***************************************************************************)
(* Properties                                                              *)
(***************************************************************************)
\* the bare type of the record in hand, as lines 392-411 read it
raw_type ==
  IF turbine = NoData \/ Strip(turbine.type) \in forbidden_types THEN None
  ELSE Strip(turbine.type)

\* the manufacturer-qualified type of the record in hand
raw_extended_type ==
  IF turbine = NoData THEN None
  ELSE build_extended_type(Strip(turbine.manufacturer), raw_type)

\* a step of the run other than its set-up
WithinRun == pc \notin {"idle", "done"}

\* C1: within one run a key of match_cache, once present, keeps its
\* (designation, line index) value: no step overwrites or removes it.
CacheWriteOnce ==
  [][WithinRun =>
       \A key \in DOMAIN match_cache :
         key \in DOMAIN match_cache' /\ match_cache'[key] = match_cache[key]]_vars

\* a cache hit returned although a cold lookup of the same type for this
\* record gives another line index
CacheHitDiffersFromColdLookup ==
  /\ pc = "ret"
  /\ used_matcher = "CacheHit(TurbineType)"
  /\ by_turbine_type(raw_type, default_fields, None, turbine, FALSE).matched_line_index
       # matched_line_index
  /\ match_cache[raw_type].matched_line_index = matched_line_index

\* the stages in their fixed order, and the position each one runs at
StageOrder ==
  << "Option1", "Option2", "Option3", "Option4", "Option3b", "Option4b",
     "Option5", "Option6", "Option7", "Option8", "Final" >>

StageRank(stage) == CHOOSE n \in 1 .. Len(StageOrder) : StageOrder[n] = stage

StageAt ==
  ( "opt1" :> "Option1" @@ "opt2" :> "Option2" @@ "opt3" :> "Option3" @@
    "opt4" :> "Option4" @@ "opt3b" :> "Option3b" @@ "opt4b" :> "Option4b" @@
    "opt5" :> "Option5" @@ "opt6" :> "Option6" @@ "opt7" :> "Option7" @@
    "opt8" :> "Option8" @@ "final" :> "Final" )

\* the tags each stage may return
TagsOf ==
  ( "Option1" :> {"CacheHit(TurbineType)"} @@
    "Option2" :> {"CacheHit(Manufacturer+TurbineType)"} @@
    "Option3" :> {"DatabaseLookup(Manufacturer+TurbineType)"} @@
    "Option4" :> {"DatabaseLookup(TurbineType)"} @@
    "Option3b" :> {"DatabaseLookup(EnrichedTurbineType)"} @@
    "Option4b" :> {"DatabaseLookup(EnrichedTurbineType)"} @@
    "Option5" :> {"DimensionLocationMapper"} @@
    "Option6" :> {"DatabaseLookup(TowerProperties)"} @@
    "Option7" :> {"ProbabilisticMapper"} @@
    "Option8" :> {"DefaultTurbineSelector"} @@
    "Final" :> {"NotMatched"} )

\* the resolver finds, for the record in hand, a plausible candidate for key
ResolverAccepts(key) ==
  LET r == by_turbine_type(key, default_fields, None, turbine, FALSE)
  IN /\ ~r.raised
     /\ Truthy(r.model_designation)
     /\ tower_implements_turbine_type(turbine, r.matched_line_index)

\* a type-based stage would accept the record in hand in this cache state
WouldAccept(stage) ==
  CASE stage = "Option1" ->
         /\ raw_type # None /\ raw_type \in DOMAIN match_cache
         /\ tower_implements_cached_type(match_cache, turbine, raw_type)
    [] stage = "Option2" ->
         /\ raw_extended_type # None /\ raw_extended_type \in DOMAIN match_cache
         /\ tower_implements_cached_type(match_cache, turbine, raw_extended_type)
    [] stage = "Option3" ->
         raw_extended_type # None /\ ResolverAccepts(raw_extended_type)
    [] stage = "Option4" ->
         raw_type # None /\ ResolverAccepts(raw_type)
    [] stage = "Option3b" ->
         /\ raw_extended_type # None
         /\ parse_model_name(raw_extended_type).is_known_manufacturer
         /\ ResolverAccepts(enriched_type(raw_extended_type))
    [] stage = "Option4b" ->
         /\ raw_type # None
         /\ parse_model_name(raw_type).is_known_manufacturer
         /\ ResolverAccepts(enriched_type(raw_type))

TypeStages == { "Option1", "Option2", "Option3", "Option4", "Option3b", "Option4b" }

\* a type-based stage is still open to the record: the cache stages have not
\* made it distrust the string the stage works on
Eligible(stage) ==
  CASE stage = "Option1" -> TRUE
    [] stage \in {"Option2", "Option4", "Option4b"} -> "Option1" \notin rejected
    [] stage \in {"Option3", "Option3b"} -> rejected \cap {"Option1", "Option2"} = {}

\* the step is a return of the stage at pc
ReturnStep == pc \in DOMAIN StageAt /\ pc' = "ret"

\* the lookups run in the fixed order
AttemptedInOrder ==
  \A i, j \in 1 .. Len(attempted) :
    i < j => StageRank(attempted[i]) < StageRank(attempted[j])

\* C2 as stated: the stages run in the fixed order, the tag returned is that
\* of the returning stage, and no stage returns for a record that an earlier
\* type-based stage would accept in the same cache state.
FirstAcceptingStageReturns ==
  /\ []AttemptedInOrder
  /\ [][ReturnStep =>
          /\ used_matcher' \in TagsOf[StageAt[pc]]
          /\ \A stage \in TypeStages :
               StageRank(stage) < StageRank(StageAt[pc]) => ~WouldAccept(stage)]_vars

\* C2 amended: as stated, for the earlier stages that are still eligible: a
\* rejected cache hit on the bare type closes the stages 2 to 4b, a rejected
\* cache hit on the qualified type closes the stages 3 and 3b.
FirstEligibleAcceptingStageReturns ==
  /\ []AttemptedInOrder
  /\ [][ReturnStep =>
          /\ used_matcher' \in TagsOf[StageAt[pc]]
          /\ \A stage \in TypeStages :
               StageRank(stage) < StageRank(StageAt[pc]) /\ Eligible(stage)
                 => ~WouldAccept(stage)]_vars

\* a result returned after the cached entry of the bare type was rejected,
\* for a record the resolver on the bare type accepts
ReturnedPastAcceptableResolver ==
  /\ pc = "ret"
  /\ "Option1" \in rejected
  /\ ResolverAccepts(raw_type)

ResolverStages == { "Option3", "Option4", "Option3b", "Option4b" }

Attempted(stage) == \E n \in 1 .. Len(attempted) : attempted[n] = stage

\* C3 as stated: after a rejected cache hit (bare or qualified type) the
\* resolver stages on the qualified and the bare type have been attempted
\* when the dimension-based stages begin.
ResolversAttemptedAfterCacheReject ==
  (pc = "opt5" /\ rejected \cap {"Option1", "Option2"} # {})
    => /\ Attempted("Option4")
       /\ raw_extended_type # None => Attempted("Option3")

\* C3 amended: after a rejected cache hit on the bare type no resolver stage
\* is attempted; after a rejected cache hit on the qualified type the stages
\* on the qualified type are skipped and the stage on the bare type is
\* attempted, before the dimension-based stages begin.
ResolversAfterCacheReject ==
  pc = "opt5" =>
    /\ "Option1" \in rejected => \A stage \in ResolverStages : ~Attempted(stage)
    /\ "Option2" \in rejected =>
         /\ Attempted("Option4")
         /\ ~Attempted("Option3")
         /\ ~Attempted("Option3b")

\* the dimension-based stages begin after the cached entry of the qualified
\* type was rejected
QualifiedCacheHitRejected == pc = "opt5" /\ "Option2" \in rejected

\* the first positive of the record's value and the catalog entry's value,
\* the record first
Derived(own, candidate) == IF own > 0 THEN own ELSE candidate

Max(a, b) == IF a >= b THEN a ELSE b

\* the tags of the stages that call the plausibility check
CheckedTags ==
  { "CacheHit(TurbineType)", "CacheHit(Manufacturer+TurbineType)",
    "DatabaseLookup(Manufacturer+TurbineType)", "DatabaseLookup(TurbineType)",
    "DatabaseLookup(EnrichedTurbineType)" }

\* C4: every result returned with the tag of a cache stage or a resolver
\* stage names a catalog entry for which the derived radius (half the
\* derived diameter) is below the derived hub height, the record's own
\* value taken before the entry's.
AcceptedCandidatePlausible ==
  (pc = "ret" /\ used_matcher \in CheckedTags) =>
    /\ matched_line_index \in FullIndex
    /\ Derived(turbine.diameter, Row(matched_line_index).diameter)
         < 2 * Derived(turbine.hub_height, Row(matched_line_index).height)

\* a cache hit returned for a record that states its own hub height
CacheHitWithOwnHeight ==
  /\ pc = "ret"
  /\ used_matcher = "CacheHit(TurbineType)"
  /\ turbine.hub_height > 0

\* C5 as stated: the check is true exactly when the larger of the two radii
\* is below the larger of the two hub heights.
PlausibleIffMaxRadiusBelowMaxHeight ==
  turbine # NoData =>
    \A index \in FullIndex :
      tower_implements_turbine_type(turbine, index)
        <=> Max(turbine.diameter, Row(index).diameter)
              < 2 * Max(turbine.hub_height, Row(index).height)

\* C5 amended: the check is true exactly when the first positive radius,
\* the record's before the entry's, is below the first positive hub height,
\* the record's before the entry's (a missing value counts as 0).
PlausibleIffFirstRadiusBelowFirstHeight ==
  turbine # NoData =>
    \A index \in FullIndex :
      tower_implements_turbine_type(turbine, index)
        <=> Derived(turbine.diameter, Row(index).diameter)
              < 2 * Derived(turbine.hub_height, Row(index).height)

\* a cached entry with the larger hub height was rejected for a record that
\* states a diameter and a lower hub height of its own
OwnDimensionsRejectTallerEntry ==
  /\ pc = "opt2"
  /\ "Option1" \in rejected
  /\ turbine.diameter > 0
  /\ turbine.hub_height > 0
  /\ Max(turbine.diameter, Row(match_cache[raw_type].matched_line_index).diameter)
       < 2 * Max(turbine.hub_height, Row(match_cache[raw_type].matched_line_index).height)

\* the fixed enumeration of strategy tags
StrategyTags ==
  { "CacheHit(TurbineType)", "CacheHit(Manufacturer+TurbineType)",
    "DatabaseLookup(Manufacturer+TurbineType)", "DatabaseLookup(TurbineType)",
    "DatabaseLookup(EnrichedTurbineType)", "DimensionLocationMapper",
    "DatabaseLookup(TowerProperties)", "ProbabilisticMapper",
    "DefaultTurbineSelector", "NotMatched" }

\* C6: every return of match_model_designation_on_turbine carries one of
\* the ten strategy tags.
ReturnedTagInEnumeration == pc = "ret" => used_matcher \in StrategyTags

\* a result returned by the tower-properties lookup
ReturnedByTowerProperties ==
  pc = "ret" /\ used_matcher = "DatabaseLookup(TowerProperties)"

\* C7: the returned designation is none exactly when the returned tag is
\* NotMatched, and every other tag comes with a non-empty designation.
NoDesignationIffNotMatched ==
  pc = "ret" =>
    /\ (model_designation = None) <=> (used_matcher = "NotMatched")
    /\ used_matcher # "NotMatched" => Truthy(model_designation)

\* a record returned as not matched after a resolver stage found no
\* designation for its type
NotMatchedAfterResolver ==
  /\ pc = "ret"
  /\ used_matcher = "NotMatched"
  /\ Attempted("Option4")

\* C8 as stated: after a record is stored, a record with a designation holds
\* the line index the cascade returned, an index of the full catalog, and
\* the sentinel -1 is stored only for a record that was not matched.
StoredIndexIsReturnedIndex ==
  (pc = "loop" /\ stored # NoData) =>
    /\ Truthy(stored.model_designation) =>
         /\ stored.matched_line_index \in FullIndex
         /\ stored.matched_line_index = matched_line_index
    /\ stored.matched_line_index = no_match_idx => stored.MatchedBy = "NotMatched"

\* the stage that returned the result in hand
ReturningStage ==
  IF used_matcher = "NotMatched" \/ attempted = << >> THEN "Final"
  ELSE attempted[Len(attempted)]

\* the pair returned
ReturnedPair ==
  [model_designation |-> model_designation, matched_line_index |-> matched_line_index]

\* key is cached with the pair returned
CachedAsReturned(key) == key \in DOMAIN match_cache /\ match_cache[key] = ReturnedPair

\* the tags of the stages that are not cache stages and accept a match
NonCacheTags ==
  StrategyTags \ { "CacheHit(TurbineType)", "CacheHit(Manufacturer+TurbineType)",
                   "NotMatched" }

\* C9 as stated: when a non-cache stage has accepted, the cache holds the
\* record's qualified type and its bare type.
AcceptedMatchCachedUnderBothTypes ==
  (pc = "ret" /\ used_matcher \in NonCacheTags) =>
    /\ raw_type # None => raw_type \in DOMAIN match_cache
    /\ raw_extended_type # None => raw_extended_type \in DOMAIN match_cache

\* the type code a guessing stage worked on for the record in hand
GuessOf(stage) ==
  CASE stage = "Option5" -> DimensionLocationMapper_map(turbine)
    [] stage = "Option7" ->
         ProbabilisticMapper_map(turbine_type, turbine.latitude, turbine.longitude,
                                 turbine.diameter)
    [] stage = "Option8" -> get_default_turbine(turbine.latitude, turbine.longitude)

\* C9 amended: the resolver on the qualified type caches the returned pair
\* under the qualified and the bare type; the resolver on the bare type
\* caches it under the bare type only; an enriched stage has the enriched
\* variant in the cache and caches the pair under the type strings it was
\* built from; the three guessing stages cache the pair under the guessed
\* type code only; the tower-properties lookup writes nothing.  After a
\* resolver stage a later identical record resolves by a cache hit on the
\* bare type.
AcceptedMatchCachedByStage ==
  /\ [](pc = "ret" =>
         /\ ReturningStage = "Option3" =>
              /\ CachedAsReturned(raw_extended_type)
              /\ CachedAsReturned(raw_type)
         /\ ReturningStage = "Option4" =>
              /\ CachedAsReturned(raw_type)
              /\ raw_extended_type # None /\ "Option2" \notin rejected
                   => raw_extended_type \notin DOMAIN match_cache
         /\ ReturningStage = "Option3b" =>
              /\ enriched_type(raw_extended_type) \in DOMAIN match_cache
              /\ CachedAsReturned(raw_extended_type)
              /\ CachedAsReturned(raw_type)
         /\ ReturningStage = "Option4b" =>
              /\ enriched_type(raw_type) \in DOMAIN match_cache
              /\ CachedAsReturned(raw_type)
         /\ ReturningStage \in {"Option5", "Option7", "Option8"} =>
              CachedAsReturned(GuessOf(ReturningStage))
         /\ ReturningStage \in ResolverStages => WouldAccept("Option1"))
  /\ [][/\ pc \in {"opt5", "opt7", "opt8"} /\ pc' = "ret"
          => DOMAIN match_cache' \subseteq DOMAIN match_cache \cup {GuessOf(StageAt[pc])}
        /\ pc = "opt6" => match_cache' = match_cache]_vars

\* the resolver on the qualified type has accepted a record
ReturnedByQualifiedResolver ==
  /\ pc = "ret"
  /\ used_matcher = "DatabaseLookup(Manufacturer+TurbineType)"
  /\ raw_extended_type # None

\* C10: a resolver stage that rejects the resolver's candidate leaves
\* match_cache as it was.
RejectingResolverLeavesCache ==
  [][(pc \in {"opt3", "opt4", "opt3b", "opt4b"} /\ rejected' # rejected)
       => match_cache' = match_cache]_vars

\* the candidate of the resolver on the qualified type was rejected
QualifiedCandidateRejected == pc = "opt4" /\ "Option3" \in rejected

(***************************************************************************)
(* The configurable fallbacks                                              *)
(***************************************************************************)
\* C11: with use_probabilistic_mapper disabled the tag ProbabilisticMapper is
\* never returned, with use_default_selector disabled the tag
\* DefaultTurbineSelector is never returned, and with both disabled a record
\* that reaches Option 7 steps from Option 7 to Option 8, from there to the
\* final option and from there to the return of (None, None, "NotMatched")
DisabledFallbacksEndNotMatched ==
  /\ [](used_matcher = "ProbabilisticMapper" => use_probabilistic_mapper)
  /\ [](used_matcher = "DefaultTurbineSelector" => use_default_selector)
  /\ [][(~use_probabilistic_mapper /\ ~use_default_selector)
         => /\ pc = "opt7" => pc' = "opt8"
            /\ pc = "opt8" => pc' = "final"
            /\ pc = "final" => /\ pc' = "ret"
                               /\ model_designation' = None
                               /\ matched_line_index' = NoneIndex
                               /\ used_matcher' = "NotMatched"]_vars

\* a record is returned as not matched while both fallbacks are disabled
NotMatchedWithFallbacksDisabled ==
  /\ pc = "ret"
  /\ used_matcher = "NotMatched"
  /\ ~use_probabilistic_mapper
  /\ ~use_default_selector

(***************************************************************************)
(* The counters of match()                                                 *)
(***************************************************************************)
\* the sum of the counts of a counter over the tags S
RECURSIVE SumOver(_, _)
SumOver(counter, S) ==
  IF S = {} THEN 0
  ELSE LET tag == CHOOSE t \in S : TRUE
       IN counter[tag] + SumOver(counter, S \ {tag})

\* the count of a tag in a counter, 0 if the tag was never counted
CountOf(counter, tag) == IF tag \in DOMAIN counter THEN counter[tag] ELSE 0

\* the counts of a tag in the counters of the countries S, summed
RECURSIVE SumOverCountries(_, _)
SumOverCountries(tag, S) ==
  IF S = {} THEN 0
  ELSE LET country == CHOOSE c \in S : TRUE
       IN CountOf(counter_per_country[country], tag)
          + SumOverCountries(tag, S \ {country})

RaiseAbortsBatch ==
  /\ [][(pc = "loop" /\ turbine_counter' = turbine_counter + 1
          /\ (empty_to_none_raises(turbine'.manufacturer)
              \/ empty_to_none_raises(turbine'.type)))
         => /\ pc' = "raised"
            /\ UNCHANGED << counters, stored, match_cache >>]_vars
  /\ [][pc # "raised"]_vars

\* a later record raised after an earlier one was stored and counted
RaisedAfterStoredRecord ==
  /\ pc = "raised"
  /\ turbine_counter = 2
  /\ counter_global # EmptyDict

(***************************************************************************)
(* Resolution from an empty cache                                          *)
(***************************************************************************)
\* the triple a resolver stage returns for key
ResolverTriple(key, tag) ==
  << by_turbine_type(key, default_fields, None, turbine, FALSE).model_designation,
     by_turbine_type(key, default_fields, None, turbine, FALSE).matched_line_index,
     tag >>

\* a guessed type code resolves to a designation with nothing cached
GuessResolves(guess) ==
  /\ guess # None
  /\ ~turbine_type_to_model_designation(EmptyDict, guess).raised
  /\ Truthy(turbine_type_to_model_designation(EmptyDict, guess).model_designation)

\* the triple a guessing stage returns for its guess
GuessTriple(guess, tag) ==
  << turbine_type_to_model_designation(EmptyDict, guess).model_designation,
     turbine_type_to_model_designation(EmptyDict, guess).matched_line_index,
     tag >>

\* the closest entry by the tower properties of the record in hand
ClosestToRecord ==
  get_specs_by_tower_properties(turbine.diameter, turbine.hub_height,
                                turbine.power_rating)

\* the guess of the probabilistic mapper for the record in hand
ProbabilisticGuess ==
  ProbabilisticMapper_map(raw_type, turbine.latitude, turbine.longitude,
                          turbine.diameter)

\* the triple of the record in hand resolved with nothing cached, as a
\* function of the record and the configuration alone
ColdTriple ==
  IF WouldAccept("Option3")
  THEN ResolverTriple(raw_extended_type, "DatabaseLookup(Manufacturer+TurbineType)")
  ELSE IF WouldAccept("Option4")
  THEN ResolverTriple(raw_type, "DatabaseLookup(TurbineType)")
  ELSE IF WouldAccept("Option3b")
  THEN ResolverTriple(enriched_type(raw_extended_type),
                      "DatabaseLookup(EnrichedTurbineType)")
  ELSE IF WouldAccept("Option4b")
  THEN ResolverTriple(enriched_type(raw_type), "DatabaseLookup(EnrichedTurbineType)")
  ELSE IF GuessResolves(DimensionLocationMapper_map(turbine))
  THEN GuessTriple(DimensionLocationMapper_map(turbine), "DimensionLocationMapper")
  ELSE IF /\ ~(turbine.diameter = 0 /\ turbine.hub_height = 0
               /\ turbine.power_rating = 0)
          /\ ClosestToRecord.specs # NoData
          /\ Truthy(ClosestToRecord.specs.model_designation)
  THEN << ClosestToRecord.specs.model_designation,
          ClosestToRecord.matched_line_index, "DatabaseLookup(TowerProperties)" >>
  ELSE IF use_probabilistic_mapper /\ GuessResolves(ProbabilisticGuess)
  THEN GuessTriple(ProbabilisticGuess, "ProbabilisticMapper")
  ELSE IF /\ use_default_selector
          /\ GuessResolves(get_default_turbine(turbine.latitude, turbine.longitude))
  THEN GuessTriple(get_default_turbine(turbine.latitude, turbine.longitude),
                   "DefaultTurbineSelector")
  ELSE << None, NoneIndex, "NotMatched" >>

\* C14: a record resolved from an empty cache (the first record of a run, or
\* a later one while nothing is cached) is returned with the triple that the
\* record and the configuration alone determine, whatever run it is part of
\* and whatever was resolved before; the probabilistic mapper in particular
\* gives one guess for one (type, latitude, longitude, diameter)
ColdResolutionDeterministic ==
  (pc = "ret" /\ (turbine_counter = 1 \/ match_cache = EmptyDict))
    => returned = ColdTriple

\* the first record of a run is returned by the probabilistic mapper
ColdRecordReturnedByProbabilisticMapper ==
  /\ pc = "ret"
  /\ turbine_counter = 1
  /\ used_matcher = "ProbabilisticMapper"

(***************************************************************************)
(* Callers of add_to_cache that run interleaved on the shared match_cache   *)
(***************************************************************************)
\* the type strings and the (designation, line index) pairs of the calls
CallItems == { <<"T1">>, <<"Vestas T1">>, <<"Vestas T1", "T1">> }

CallPairs ==
  { [model_designation |-> Row(i).model_designation, matched_line_index |-> i] :
      i \in {0, 1} }

Calls ==
  { [ model_designation |-> pair.model_designation, matched_line_index |-> pair.matched_line_index,
      turbine_type |-> items ] :
    items \in CallItems, pair \in CallPairs }

\* each caller is about to run add_to_cache on an empty cache
ConcurrentInit ==
  /\ use_probabilistic_mapper = TRUE
  /\ use_default_selector = TRUE
  /\ match_cache = EmptyDict
  /\ counter_global = EmptyDict
  /\ counter_per_country = EmptyDict
  /\ turbine_counter = 0
  /\ turbine = NoData
  /\ stored = NoData
  /\ manufacturer = None
  /\ turbine_type = None
  /\ extended_type = None
  /\ model_designation = None
  /\ matched_line_index = NoneIndex
  /\ used_matcher = None
  /\ attempted = << >>
  /\ rejected = {}
  /\ pc = "loop"
  /\ writer_pc = [w \in Writers |-> "test"]
  /\ writer_call \in [Writers -> Calls]
  /\ load_calls = 1
  /\ self_specs_files = << SpecsFile >>
  /\ self_specs_df_full = specs_df_full
  /\ self_specs_df_filtered = FilterSpecs(specs_df_full)
  /\ call_args = NoArgs
  /\ call_result = None

\* the rest of the call once the item in hand is dealt with
NextItem(call) == [call EXCEPT !.turbine_type = Tail(@)]

\* for item in turbine_type: if item not in self.match_cache
AddToCacheTest(w) ==
  /\ writer_pc[w] = "test"
  /\ IF writer_call[w].turbine_type = << >>
     THEN /\ writer_pc' = [writer_pc EXCEPT ![w] = "done"]
          /\ UNCHANGED writer_call
     ELSE IF Head(writer_call[w].turbine_type) \in DOMAIN match_cache
     THEN /\ writer_call' = [writer_call EXCEPT ![w] = NextItem(@)]
          /\ UNCHANGED writer_pc
     ELSE /\ writer_pc' = [writer_pc EXCEPT ![w] = "assign"]
          /\ UNCHANGED writer_call
  /\ UNCHANGED << config, loader, calls, match_cache, counters, turbine_counter, turbine, stored,
                  locals, returned, history, pc >>

\* self.match_cache[item] = (model_designation, matched_line_index)
AddToCacheAssign(w) ==
  /\ writer_pc[w] = "assign"
  /\ match_cache' =
       [ key \in DOMAIN match_cache \cup {Head(writer_call[w].turbine_type)} |->
           IF key = Head(writer_call[w].turbine_type)
           THEN [model_designation |-> writer_call[w].model_designation,
                 matched_line_index |-> writer_call[w].matched_line_index]
           ELSE match_cache[key] ]
  /\ writer_call' = [writer_call EXCEPT ![w] = NextItem(@)]
  /\ writer_pc' = [writer_pc EXCEPT ![w] = "test"]
  /\ UNCHANGED << config, loader, calls, counters, turbine_counter, turbine, stored, locals,
                  returned, history, pc >>

ConcurrentNext == \E w \in Writers : AddToCacheTest(w) \/ AddToCacheAssign(w)

ConcurrentSpec == ConcurrentInit /\ [][ConcurrentNext]_vars

\* C15: while add_to_cache calls run interleaved on the shared cache, a key
\* of match_cache, once written, keeps the pair first written under it
InterleavedWritesKeepFirst ==
  [][\A key \in DOMAIN match_cache :
       key \in DOMAIN match_cache' /\ match_cache'[key] = match_cache[key]]_vars

(***************************************************************************)
(* The keys and the values of match_cache                                  *)
(***************************************************************************)
\* the texts of the tuples (model_designation_enriched, row_data_used) that
\* enrich_model_designation returns
TupleTexts == { TupleStr(d, flag) : d \in DOMAIN LowerTable, flag \in BOOLEAN }

\* C16: every key of match_cache is a type string, not the tuple that
\* enrich_model_designation returns, and every value is a pair of a non-empty
\* designation and the line index of an entry of the full catalog
CacheKeysAreTypeStrings ==
  \A key \in DOMAIN match_cache :
    /\ key \notin TupleTexts
    /\ Truthy(match_cache[key].model_designation)
    /\ match_cache[key].matched_line_index \in FullIndex

(***************************************************************************)
(* Dimensions outside the range of the filtered catalog                    *)
(***************************************************************************)
\* a supplied dimension that lies between two values of its column of the
\* filtered catalog; 0 when it is not supplied or lies outside
Kept(value, column) ==
  IF /\ value # 0
     /\ \E i, j \in get_specs_dataframe(TRUE) :
          Row(i)[column] <= value /\ value <= Row(j)[column]
  THEN value
  ELSE 0

\* the dimensions of the record in hand that remain after dropping
KeptDimensions ==
  << Kept(turbine.diameter, "diameter"), Kept(turbine.hub_height, "height"),
     Kept(turbine.power_rating, "rated_power") >>

\* the closest entry of the filtered catalog by the remaining dimensions only
ClosestByKept ==
  ClosestEntry(get_specs_dataframe(TRUE), KeptDimensions[1], KeptDimensions[2],
               KeptDimensions[3])

\* C17: get_specs_by_tower_properties scores only the supplied dimensions that
\* lie within the observed [min, max] of the filtered catalog: when Option 6
\* calls it, the lookup finds nothing exactly when no supplied dimension
\* remains after dropping, and what it finds is the closest entry by the
\* remaining dimensions alone
OutOfRangeDimensionsDropped ==
  [][ (pc = "opt6" /\ attempted' # attempted) =>
        /\ (pc' = "opt7") <=> (KeptDimensions = << 0, 0, 0 >>)
        /\ (pc' # "opt7") =>
             /\ pc' = "ret"
             /\ model_designation' = ClosestByKept.specs.model_designation
             /\ matched_line_index' = ClosestByKept.matched_line_index
             /\ used_matcher' = "DatabaseLookup(TowerProperties)" ]_vars

\* Option 6 has matched a record whose hub height lies outside the catalog
MatchedDespiteDroppedHeight ==
  /\ pc = "ret"
  /\ used_matcher = "DatabaseLookup(TowerProperties)"
  /\ turbine.hub_height # 0
  /\ KeptDimensions[2] = 0

(***************************************************************************)
(* TurbineTypeManager.load_type_specs on a manager constructed without     *)
(* files                                                                    *)
(***************************************************************************)
\* the load_type_specs calls of a run
MaxLoads == 3

\* the files load_type_specs may be given in one call
MaxFiles == 2

\* the rows _load_specs_file reads from the files that parse
FileRows ==
  ( "a.json" :> SubSeq(specs_df_full, 1, 3) @@
    "b.json" :> SubSeq(specs_df_full, 4, 6) @@
    "c.json" :> SubSeq(specs_df_full, 7, 8) )

\* a file that exists and does not parse: _load_specs_file returns None
BrokenFile == "broken.json"

\* a file that does not exist
MissingFile == "missing.csv"

\* a CSV file with rows and a power column: power_to_kw is called with a
\* hub_height argument it does not take, a TypeError
PowerCsvFile == "power.csv"

Files == DOMAIN FileRows \cup { BrokenFile, MissingFile, PowerCsvFile }

\* unify_file_list: the lists of files of one call
FileLists == UNION { [1 .. n -> Files] : n \in 1 .. MaxFiles }

\* specs_file.exists()
Exists(specs_file) == specs_file # MissingFile

\* _load_specs_file returned a frame
Parsed(specs_file) == specs_file \in DOMAIN FileRows

\* reset_type_specs, with None as the empty frame pd.concat takes it for
LoaderInit ==
  /\ use_probabilistic_mapper \in BOOLEAN
  /\ use_default_selector \in BOOLEAN
  /\ match_cache = EmptyDict
  /\ counter_global = EmptyDict
  /\ counter_per_country = EmptyDict
  /\ turbine_counter = 0
  /\ turbine = NoData
  /\ stored = NoData
  /\ manufacturer = None
  /\ turbine_type = None
  /\ extended_type = None
  /\ model_designation = None
  /\ matched_line_index = NoneIndex
  /\ used_matcher = None
  /\ attempted = << >>
  /\ rejected = {}
  /\ pc = "idle"
  /\ writer_pc = [w \in Writers |-> "idle"]
  /\ writer_call = [w \in Writers |-> NoCall]
  /\ load_calls = 0
  /\ self_specs_files = << >>
  /\ self_specs_df_full = << >>
  /\ self_specs_df_filtered = EmptyDict
  /\ call_args = NoArgs
  /\ call_result = None

RECURSIVE ConcatRows(_)
\* pd.concat(specs_list): the rows of the frames, None left out
ConcatRows(specs_files) ==
  IF specs_files = << >> THEN << >>
  ELSE (IF Parsed(Head(specs_files)) THEN FileRows[Head(specs_files)] ELSE << >>)
       \o ConcatRows(Tail(specs_files))

RECURSIVE FoundFiles(_)
\* the files appended to self.specs_files before the loop ends or raises
FoundFiles(specs_files) ==
  IF specs_files = << >> THEN << >>
  ELSE IF ~Exists(Head(specs_files)) THEN FoundFiles(Tail(specs_files))
  ELSE IF Head(specs_files) = PowerCsvFile THEN << PowerCsvFile >>
  ELSE << Head(specs_files) >> \o FoundFiles(Tail(specs_files))

\* lines 225-242 and 245: FileNotFoundError for a single missing file or when
\* no file is found, TypeError of power_to_kw in _load_specs_file, ValueError
\* of pd.concat when every frame is None
LoadRaises(specs_files) ==
  \/ Len(specs_files) = 1 /\ ~Exists(specs_files[1])
  \/ \E n \in DOMAIN specs_files : specs_files[n] = PowerCsvFile
  \/ SelectSeq(specs_files, Exists) = << >>
  \/ SelectSeq(specs_files, Parsed) = << >>

\* load_type_specs: the found files are recorded; unless the call raises, the
\* new rows are appended, the index runs from 0 again and the filter is redone
load_type_specs(specs_files) ==
  /\ load_calls < MaxLoads
  /\ load_calls' = load_calls + 1
  /\ self_specs_files' = self_specs_files \o FoundFiles(specs_files)
  /\ IF LoadRaises(specs_files)
     THEN UNCHANGED << self_specs_df_full, self_specs_df_filtered >>
     ELSE /\ self_specs_df_full' = self_specs_df_full \o ConcatRows(specs_files)
          /\ self_specs_df_filtered' = FilterSpecs(self_specs_df_full')
  /\ UNCHANGED << config, writers, calls, match_cache, counters, turbine_counter, turbine,
                  stored, locals, returned, history, pc >>

LoaderNext == \E specs_files \in FileLists : load_type_specs(specs_files)

LoaderSpec == LoaderInit /\ [][LoaderNext]_vars

\* C18: after any sequence of load_type_specs calls, every line index of the
\* filtered catalog is a line index of the full catalog and denotes the same
\* entry, and an entry is in the filtered catalog exactly when it has a known
\* manufacturer, wind-speed data and a non-empty designation
FilteredWithinFull ==
  /\ \A i \in DOMAIN self_specs_df_filtered :
       /\ i \in 0 .. (Len(self_specs_df_full) - 1)
       /\ self_specs_df_filtered[i] = self_specs_df_full[i + 1]
  /\ \A i \in 0 .. (Len(self_specs_df_full) - 1) :
       i \in DOMAIN self_specs_df_filtered <=>
         /\ self_specs_df_full[i + 1].is_known_manufacturer
         /\ self_specs_df_full[i + 1].wind_speeds_length > 0
         /\ self_specs_df_full[i + 1].model_designation_length > 0

\* a second load has added a usable entry behind an entry that is filtered out
FilteredAfterSecondLoad ==
  /\ load_calls >= 2
  /\ \E i, j \in 0 .. (Len(self_specs_df_full) - 1) :
       /\ i < j
       /\ i \notin DOMAIN self_specs_df_filtered
       /\ j \in DOMAIN self_specs_df_filtered
       /\ j >= 3


(***************************************************************************)
(* ProbabilisticMapper.map called on its own                               *)
(***************************************************************************)
\* the type strings handed to the mapper
MapperTypes == { None, "T1", "V52", "Vestas T1", "E82", "9020", "3010" }

\* the locations handed to the mapper, in hundredths of a degree: one in
\* each region of the mapper and one in none
MapperLocations ==
  { << 5237, 489 >>, << 5450, 700 >>, << 5000, 1000 >>, << 4850, 200 >>,
    << 5300, -200 >>, << 4000, -300 >>, << 3000, 3000 >>, << 4100, 1000 >> }

\* the diameters handed to the mapper (0: none)
MapperDiameters == { 0, 20, 30, 52, 90, 95, 170, 200 }

\* the state before a call
CallInit ==
  /\ use_probabilistic_mapper \in BOOLEAN
  /\ use_default_selector \in BOOLEAN
  /\ match_cache = EmptyDict
  /\ counter_global = EmptyDict
  /\ counter_per_country = EmptyDict
  /\ turbine_counter = 0
  /\ turbine = NoData
  /\ stored = NoData
  /\ manufacturer = None
  /\ turbine_type = None
  /\ extended_type = None
  /\ model_designation = None
  /\ matched_line_index = NoneIndex
  /\ used_matcher = None
  /\ attempted = << >>
  /\ rejected = {}
  /\ pc = "idle"
  /\ writer_pc = [w \in Writers |-> "idle"]
  /\ writer_call = [w \in Writers |-> NoCall]
  /\ load_calls = 1
  /\ self_specs_files = << SpecsFile >>
  /\ self_specs_df_full = specs_df_full
  /\ self_specs_df_filtered = FilterSpecs(specs_df_full)
  /\ call_args = NoArgs
  /\ call_result = None

\* map(turbine_type, lat, lon, diameter), called once
MapCall(type, lat, lon, diameter) ==
  /\ call_args = NoArgs
  /\ call_args' = [diameter |-> diameter, turbine_type |-> type, lat |-> lat,
                   lon |-> lon]
  /\ call_result' = ProbabilisticMapper_map(type, lat, lon, diameter)
  /\ UNCHANGED << config, writers, loader, match_cache, counters, turbine_counter,
                  turbine, stored, locals, returned, history, pc >>

MapperNext ==
  \E type \in MapperTypes, location \in MapperLocations, diameter \in MapperDiameters :
    MapCall(type, location[1], location[2], diameter)

MapperSpec == CallInit /\ [][MapperNext]_vars

\* the catalog of common models as a set
CommonModelSet == { common_models[i] : i \in DOMAIN common_models }

\* the models of the regional lists that the catalog of common models lacks
RegionalOnlyModels == { "V164", "V174", "SG-D8", "Siemens-D7", "G58", "G80" }

\* the diameter read from the type, else the diameter given
GuidingDiameter ==
  IF first_part(call_args.turbine_type) # 0 THEN first_part(call_args.turbine_type)
  ELSE call_args.diameter

\* a diameter is known and lies within 15 m of that of a common model
DiameterGuides ==
  /\ GuidingDiameter # 0
  /\ \E i \in DOMAIN common_models :
       /\ model_diameter(common_models[i]) > 0
       /\ Abs(model_diameter(common_models[i]) - GuidingDiameter) <= 15

\* C19 as stated: ProbabilisticMapper.map always returns a member of the
\* catalog of common models built by _get_common_models
MapperReturnsCommonModel ==
  (call_args # NoArgs) => call_result \in CommonModelSet

\* C19: ProbabilisticMapper.map returns a member of the catalog of common
\* models or one of the regional-list models the catalog lacks (V164, V174,
\* SG-D8, Siemens-D7, G58, G80); it returns a member of the catalog when a
\* diameter guides the choice and when the location lies in no region
MapperReturnsCommonOrRegionalModel ==
  (call_args # NoArgs) =>
    /\ call_result \in CommonModelSet \cup RegionalOnlyModels
    /\ DiameterGuides => call_result \in CommonModelSet
    /\ regional_models(call_args.lat, call_args.lon) = << >> =>
         call_result \in CommonModelSet

\* the mapper has returned a regional model that is not a common model, for
\* a call with a diameter that is too far from every common model
MapperReturnedRegionalOnlyModel ==
  /\ call_args # NoArgs
  /\ call_args.diameter # 0
  /\ call_result \in RegionalOnlyModels

(***************************************************************************)
(* utils.power_to_kw called on its own, without a unit                      *)
(***************************************************************************)
\* the parts of a unit the powers of a call are counted in: tenths
PowerParts == 10

\* the powers of a call, in tenths: 0, 0.5, 0.9, 1, 5, 19, 19.9, 20, 100,
\* 449.9, 450, 500, 999, 1000, 1000.1, 2000, 1,000,000, 1,000,000.1, 2,000,000
CallPowers ==
  { 0, 5, 9, 10, 50, 190, 199, 200, 1000, 4499, 4500, 5000, 9990, 10000, 10001,
    20000, 10000000, 10000001, 20000000 }

\* the diameters of a call, in metres (0: none)
CallDiameters == { 0, 20, 34, 35, 59, 60, 100 }

\* power_to_kw(power, diameter=diameter), called once
PowerCall(power, diameter) ==
  /\ call_args = NoArgs
  /\ call_args' = [diameter |-> diameter, power |-> power]
  /\ call_result' = PowerToKw(power, None, diameter, PowerParts)
  /\ UNCHANGED << config, writers, loader, match_cache, counters, turbine_counter,
                  turbine, stored, locals, returned, history, pc >>

PowerNext ==
  \E power \in CallPowers, diameter \in CallDiameters : PowerCall(power, diameter)

PowerSpec == CallInit /\ [][PowerNext]_vars

\* C20 as stated: with no unit given every value below 20 is taken for
\* megawatts, with a diameter of at least 35 m every value below 1000 is
\* taken for megawatts, and every other value is returned as kilowatts
PowerBelow20OrLargeRotorIsMegawatts ==
  (call_args # NoArgs) =>
    call_result =
      IF call_args.power < 20 * PowerParts THEN call_args.power * 1000
      ELSE IF call_args.diameter >= 35 /\ call_args.power < 1000 * PowerParts
      THEN call_args.power * 1000
      ELSE call_args.power

\* the value of the call is taken for megawatts
TakenForMegawatts ==
  \/ /\ call_args.diameter = 0
     /\ 0 < call_args.power
     /\ call_args.power < 20 * PowerParts
  \/ /\ call_args.diameter >= 60
     /\ call_args.power < 450 * PowerParts
  \/ /\ call_args.diameter >= 35
     /\ call_args.power < 1 * PowerParts

\* C20: with no unit given power_to_kw takes for megawatts (value x 1000) a
\* value strictly between 0 and 20 when no diameter is given, a value below
\* 450 when the diameter is at least 60 m and a value below 1 when the
\* diameter is at least 35 m; it takes a value above 1,000,000 for watts
\* (value / 1000); every other value is returned unchanged as kilowatts
PowerUnitGuessedFromSize ==
  (call_args # NoArgs) =>
    call_result =
      IF TakenForMegawatts THEN call_args.power * 1000
      ELSE IF call_args.power > 1000000 * PowerParts THEN call_args.power \div 1000
      ELSE call_args.power

\* a value below 20 was returned unchanged for a rotor of less than 60 m
SmallValueKeptForSmallRotor ==
  /\ call_args # NoArgs
  /\ call_args.diameter = 59
  /\ call_args.power = 50
  /\ call_result = 50

\* the number of rules in patterns (ModelNameParser.py:39-129)
NumRules == 46

\* get_manufacturer_match_pattern(pattern) of each rule
RuleManufacturerPattern ==
  << "(?P<manufacturer>Vestas|(MHI Vestas Offshore)|(MHI Vestas)|MVOW)",
     "(?P<manufacturer>Enercon)",
     "(?P<manufacturer>AN(-|\\s)Bonus)",
     "(?P<manufacturer>Bonus|Combi)",
     "(?P<manufacturer>Gamesa|Bonus)",
     "(?P<manufacturer>(Siemens(\\s|-)Gamesa)|Siemens|Gamesa|(AN(-|\\s))?Bonus|SWT)",
     "(?P<manufacturer>(Siemens(\\s|-)Gamesa)|Siemens|Gamesa|(AN(-|\\s))?Bonus|SWT)",
     "(?P<manufacturer>Kenersys)",
     "(?P<manufacturer>Senvion|REpower|(Jacobs PowerTec JPT)|(Jacobs Wind Electric)|Jacobs|(HSW Husumer Schiffs)|Kenersys)",
     "(?P<manufacturer>Haliade)",
     "(?P<manufacturer>Mitsubishi)",
     "(?P<manufacturer>Mitsubishi)",
     "(?P<manufacturer>Adwen)",
     "(?P<manufacturer>(Izar Turbinas)|Izar)",
     "(?P<manufacturer>(Made\\s?-\\s?Endesa)|Made|Endesa)",
     "(?P<manufacturer>Suzlon)",
     "(?P<manufacturer>REF)",
     "(?P<manufacturer>Nordex)",
     "(?P<manufacturer>Tacke)",
     "(?P<manufacturer>BARD)",
     "(?P<manufacturer>(GE General Electric)|(General Electric)|GE|Enron|Cypress)",
     "(?P<manufacturer>(NEG(\\s|-)Micon)|NEG|Micon|(NEG Wind World)|(Wind World))",
     "(?P<manufacturer>(Nordtank Energy Group)|Nordtank|NEG)",
     "(?P<manufacturer>Goldwind|Acciona|Frisia|Vensys)",
     "(?P<manufacturer>Leitwind)",
     "(?P<manufacturer>Fuhrländer|Fuhrlaender)",
     "(?P<manufacturer>Fuhrländer|Fuhrlaender)",
     "(?P<manufacturer>Fuhrländer|Fuhrlaender)",
     "(?P<manufacturer>Envision)",
     "(?P<manufacturer>IWT)",
     "(?P<manufacturer>Eno Energy)",
     "(?P<manufacturer>DeWind)",
     "(?P<manufacturer>DDIS)",
     "(?P<manufacturer>Aircon)",
     "(?P<manufacturer>BestWatt)",
     "(?P<manufacturer>KVA Vind)",
     "(?P<manufacturer>Gaia|(Gaia Wind))",
     "(?P<manufacturer>RRB|(RRB Energy))",
     "(?P<manufacturer>EAZ Wind)",
     "(?P<manufacturer>Solid Wind)",
     "(?P<manufacturer>(Windmolens op Maat)|Logic)",
     "(?P<manufacturer>EWT|DirectWind)",
     "(?P<manufacturer>(WTN Wind TechnikNord)|(Wind TechnikNord)|WindTechnikNord|WTN)",
     "None",
     "None",
     "None" >>

\* re.search(f"^{pattern}", model_name, re.IGNORECASE): the matches, with
\* group(0) and the named groups the parser reads (None: no such group, or
\* a group that took no part in the match)
SearchHits ==
  { [manufacturer |-> "BARD", diameter |-> "None", power |-> "V", radius |-> "None", rule |-> 20, name |-> "BARD V", group0 |-> "BARD V", manufacturer_code |-> "None", power2 |-> "None", powerOW |-> "None", powerDW |-> "None", powerMW |-> "None", powerKW |-> "None", diameter2 |-> "None", diameterDm |-> "None", swept_area |-> "None", known_unit |-> "None"],
    [manufacturer |-> "Bonus", diameter |-> "44", power |-> "None", radius |-> "None", rule |-> 4, name |-> "Bonus 44/600", group0 |-> "Bonus 44/600", manufacturer_code |-> "None", power2 |-> "None", powerOW |-> "None", powerDW |-> "None", powerMW |-> "None", powerKW |-> "600", diameter2 |-> "None", diameterDm |-> "None", swept_area |-> "None", known_unit |-> "None"],
    [manufacturer |-> "Bonus", diameter |-> "44", power |-> "600", radius |-> "None", rule |-> 5, name |-> "Bonus 44/600", group0 |-> "Bonus 44/600", manufacturer_code |-> "None", power2 |-> "None", powerOW |-> "None", powerDW |-> "None", powerMW |-> "None", powerKW |-> "None", diameter2 |-> "None", diameterDm |-> "None", swept_area |-> "None", known_unit |-> "None"],
    [manufacturer |-> "Bonus", diameter |-> "150", power |-> "1500", radius |-> "None", rule |-> 5, name |-> "Bonus B150/1500", group0 |-> "Bonus B150/1500", manufacturer_code |-> "None", power2 |-> "None", powerOW |-> "None", powerDW |-> "None", powerMW |-> "None", powerKW |-> "None", diameter2 |-> "None", diameterDm |-> "None", swept_area |-> "None", known_unit |-> "None"],
    [manufacturer |-> "Bonus", diameter |-> "None", power |-> "None", radius |-> "None", rule |-> 45, name |-> "Bonus B150/1500", group0 |-> "Bonus B150/1500", manufacturer_code |-> "None", power2 |-> "None", powerOW |-> "None", powerDW |-> "None", powerMW |-> "None", powerKW |-> "None", diameter2 |-> "None", diameterDm |-> "None", swept_area |-> "None", known_unit |-> "None"],
    [manufacturer |-> "Bonus", diameter |-> "150", power |-> "2000", radius |-> "None", rule |-> 5, name |-> "Bonus B150/2000", group0 |-> "Bonus B150/2000", manufacturer_code |-> "None", power2 |-> "None", powerOW |-> "None", powerDW |-> "None", powerMW |-> "None", powerKW |-> "None", diameter2 |-> "None", diameterDm |-> "None", swept_area |-> "None", known_unit |-> "None"],
    [manufacturer |-> "Bonus", diameter |-> "None", power |-> "None", radius |-> "None", rule |-> 45, name |-> "Bonus B150/2000", group0 |-> "Bonus B150/2000", manufacturer_code |-> "None", power2 |-> "None", powerOW |-> "None", powerDW |-> "None", powerMW |-> "None", powerKW |-> "None", diameter2 |-> "None", diameterDm |-> "None", swept_area |-> "None", known_unit |-> "None"],
    [manufacturer |-> "Bonus", diameter |-> "150", power |-> "225", radius |-> "None", rule |-> 5, name |-> "Bonus B150/225", group0 |-> "Bonus B150/225", manufacturer_code |-> "None", power2 |-> "None", powerOW |-> "None", powerDW |-> "None", powerMW |-> "None", powerKW |-> "None", diameter2 |-> "None", diameterDm |-> "None", swept_area |-> "None", known_unit |-> "None"],
    [manufacturer |-> "Bonus", diameter |-> "None", power |-> "None", radius |-> "None", rule |-> 45, name |-> "Bonus B150/225", group0 |-> "Bonus B150/225", manufacturer_code |-> "None", power2 |-> "None", powerOW |-> "None", powerDW |-> "None", powerMW |-> "None", powerKW |-> "None", diameter2 |-> "None", diameterDm |-> "None", swept_area |-> "None", known_unit |-> "None"],
    [manufacturer |-> "Bonus", diameter |-> "150", power |-> "3000", radius |-> "None", rule |-> 5, name |-> "Bonus B150/3000", group0 |-> "Bonus B150/3000", manufacturer_code |-> "None", power2 |-> "None", powerOW |-> "None", powerDW |-> "None", powerMW |-> "None", powerKW |-> "None", diameter2 |-> "None", diameterDm |-> "None", swept_area |-> "None", known_unit |-> "None"],
    [manufacturer |-> "Bonus", diameter |-> "None", power |-> "None", radius |-> "None", rule |-> 45, name |-> "Bonus B150/3000", group0 |-> "Bonus B150/3000", manufacturer_code |-> "None", power2 |-> "None", powerOW |-> "None", powerDW |-> "None", powerMW |-> "None", powerKW |-> "None", diameter2 |-> "None", diameterDm |-> "None", swept_area |-> "None", known_unit |-> "None"],
    [manufacturer |-> "Bonus", diameter |-> "150", power |-> "3450", radius |-> "None", rule |-> 5, name |-> "Bonus B150/3450", group0 |-> "Bonus B150/3450", manufacturer_code |-> "None", power2 |-> "None", powerOW |-> "None", powerDW |-> "None", powerMW |-> "None", powerKW |-> "None", diameter2 |-> "None", diameterDm |-> "None", swept_area |-> "None", known_unit |-> "None"],
    [manufacturer |-> "Bonus", diameter |-> "None", power |-> "None", radius |-> "None", rule |-> 45, name |-> "Bonus B150/3450", group0 |-> "Bonus B150/3450", manufacturer_code |-> "None", power2 |-> "None", powerOW |-> "None", powerDW |-> "None", powerMW |-> "None", powerKW |-> "None", diameter2 |-> "None", diameterDm |-> "None", swept_area |-> "None", known_unit |-> "None"],
    [manufacturer |-> "Bonus", diameter |-> "30", power |-> "1500", radius |-> "None", rule |-> 5, name |-> "Bonus B30/1500", group0 |-> "Bonus B30/1500", manufacturer_code |-> "None", power2 |-> "None", powerOW |-> "None", powerDW |-> "None", powerMW |-> "None", powerKW |-> "None", diameter2 |-> "None", diameterDm |-> "None", swept_area |-> "None", known_unit |-> "None"],
    [manufacturer |-> "Bonus", diameter |-> "None", power |-> "None", radius |-> "None", rule |-> 45, name |-> "Bonus B30/1500", group0 |-> "Bonus B30/1500", manufacturer_code |-> "None", power2 |-> "None", powerOW |-> "None", powerDW |-> "None", powerMW |-> "None", powerKW |-> "None", diameter2 |-> "None", diameterDm |-> "None", swept_area |-> "None", known_unit |-> "None"],
    [manufacturer |-> "Bonus", diameter |-> "30", power |-> "2000", radius |-> "None", rule |-> 5, name |-> "Bonus B30/2000", group0 |-> "Bonus B30/2000", manufacturer_code |-> "None", power2 |-> "None", powerOW |-> "None", powerDW |-> "None", powerMW |-> "None", powerKW |-> "None", diameter2 |-> "None", diameterDm |-> "None", swept_area |-> "None", known_unit |-> "None"],
    [manufacturer |-> "Bonus", diameter |-> "None", power |-> "None", radius |-> "None", rule |-> 45, name |-> "Bonus B30/2000", group0 |-> "Bonus B30/2000", manufacturer_code |-> "None", power2 |-> "None", powerOW |-> "None", powerDW |-> "None", powerMW |-> "None", powerKW |-> "None", diameter2 |-> "None", diameterDm |-> "None", swept_area |-> "None", known_unit |-> "None"],
    [manufacturer |-> "Bonus", diameter |-> "30", power |-> "225", radius |-> "None", rule |-> 5, name |-> "Bonus B30/225", group0 |-> "Bonus B30/225", manufacturer_code |-> "None", power2 |-> "None", powerOW |-> "None", powerDW |-> "None", powerMW |-> "None", powerKW |-> "None", diameter2 |-> "None", diameterDm |-> "None", swept_area |-> "None", known_unit |-> "None"],
    [manufacturer |-> "Bonus", diameter |-> "None", power |-> "None", radius |-> "None", rule |-> 45, name |-> "Bonus B30/225", group0 |-> "Bonus B30/225", manufacturer_code |-> "None", power2 |-> "None", powerOW |-> "None", powerDW |-> "None", powerMW |-> "None", powerKW |-> "None", diameter2 |-> "None", diameterDm |-> "None", swept_area |-> "None", known_unit |-> "None"],
    [manufacturer |-> "Bonus", diameter |-> "30", power |-> "3000", radius |-> "None", rule |-> 5, name |-> "Bonus B30/3000", group0 |-> "Bonus B30/3000", manufacturer_code |-> "None", power2 |-> "None", powerOW |-> "None", powerDW |-> "None", powerMW |-> "None", powerKW |-> "None", diameter2 |-> "None", diameterDm |-> "None", swept_area |-> "None", known_unit |-> "None"],
    [manufacturer |-> "Bonus", diameter |-> "None", power |-> "None", radius |-> "None", rule |-> 45, name |-> "Bonus B30/3000", group0 |-> "Bonus B30/3000", manufacturer_code |-> "None", power2 |-> "None", powerOW |-> "None", powerDW |-> "None", powerMW |-> "None", powerKW |-> "None", diameter2 |-> "None", diameterDm |-> "None", swept_area |-> "None", known_unit |-> "None"],
    [manufacturer |-> "Bonus", diameter |-> "30", power |-> "3450", radius |-> "None", rule |-> 5, name |-> "Bonus B30/3450", group0 |-> "Bonus B30/3450", manufacturer_code |-> "None", power2 |-> "None", powerOW |-> "None", powerDW |-> "None", powerMW |-> "None", powerKW |-> "None", diameter2 |-> "None", diameterDm |-> "None", swept_area |-> "None", known_unit |-> "None"],
    [manufacturer |-> "Bonus", diameter |-> "None", power |-> "None", radius |-> "None", rule |-> 45, name |-> "Bonus B30/3450", group0 |-> "Bonus B30/3450", manufacturer_code |-> "None", power2 |-> "None", powerOW |-> "None", powerDW |-> "None", powerMW |-> "None", powerKW |-> "None", diameter2 |-> "None", diameterDm |-> "None", swept_area |-> "None", known_unit |-> "None"],
    [manufacturer |-> "Bonus", diameter |-> "82", power |-> "1500", radius |-> "None", rule |-> 5, name |-> "Bonus B82/1500", group0 |-> "Bonus B82/1500", manufacturer_code |-> "None", power2 |-> "None", powerOW |-> "None", powerDW |-> "None", powerMW |-> "None", powerKW |-> "None", diameter2 |-> "None", diameterDm |-> "None", swept_area |-> "None", known_unit |-> "None"],
    [manufacturer |-> "Bonus", diameter |-> "None", power |-> "None", radius |-> "None", rule |-> 45, name |-> "Bonus B82/1500", group0 |-> "Bonus B82/1500", manufacturer_code |-> "None", power2 |-> "None", powerOW |-> "None", powerDW |-> "None", powerMW |-> "None", powerKW |-> "None", diameter2 |-> "None", diameterDm |-> "None", swept_area |-> "None", known_unit |-> "None"],
    [manufacturer |-> "Bonus", diameter |-> "82", power |-> "2000", radius |-> "None", rule |-> 5, name |-> "Bonus B82/2000", group0 |-> "Bonus B82/2000", manufacturer_code |-> "None", power2 |-> "None", powerOW |-> "None", powerDW |-> "None", powerMW |-> "None", powerKW |-> "None", diameter2 |-> "None", diameterDm |-> "None", swept_area |-> "None", known_unit |-> "None"],
    [manufacturer |-> "Bonus", diameter |-> "None", power |-> "None", radius |-> "None", rule |-> 45, name |-> "Bonus B82/2000", group0 |-> "Bonus B82/2000", manufacturer_code |-> "None", power2 |-> "None", powerOW |-> "None", powerDW |-> "None", powerMW |-> "None", powerKW |-> "None", diameter2 |-> "None", diameterDm |-> "None", swept_area |-> "None", known_unit |-> "None"],
    [manufacturer |-> "Bonus", diameter |-> "82", power |-> "225", radius |-> "None", rule |-> 5, name |-> "Bonus B82/225", group0 |-> "Bonus B82/225", manufacturer_code |-> "None", power2 |-> "None", powerOW |-> "None", powerDW |-> "None", powerMW |-> "None", powerKW |-> "None", diameter2 |-> "None", diameterDm |-> "None", swept_area |-> "None", known_unit |-> "None"],
    [manufacturer |-> "Bonus", diameter |-> "None", power |-> "None", radius |-> "None", rule |-> 45, name |-> "Bonus B82/225", group0 |-> "Bonus B82/225", manufacturer_code |-> "None", power2 |-> "None", powerOW |-> "None", powerDW |-> "None", powerMW |-> "None", powerKW |-> "None", diameter2 |-> "None", diameterDm |-> "None", swept_area |-> "None", known_unit |-> "None"],
    [manufacturer |-> "Bonus", diameter |-> "82", power |-> "3000", radius |-> "None", rule |-> 5, name |-> "Bonus B82/3000", group0 |-> "Bonus B82/3000", manufacturer_code |-> "None", power2 |-> "None", powerOW |-> "None", powerDW |-> "None", powerMW |-> "None", powerKW |-> "None", diameter2 |-> "None", diameterDm |-> "None", swept_area |-> "None", known_unit |-> "None"],
    [manufacturer |-> "Bonus", diameter |-> "None", power |-> "None", radius |-> "None", rule |-> 45, name |-> "Bonus B82/3000", group0 |-> "Bonus B82/3000", manufacturer_code |-> "None", power2 |-> "None", powerOW |-> "None", powerDW |-> "None", powerMW |-> "None", powerKW |-> "None", diameter2 |-> "None", diameterDm |-> "None", swept_area |-> "None", known_unit |-> "None"],
    [manufacturer |-> "Bonus", diameter |-> "82", power |-> "3450", radius |-> "None", rule |-> 5, name |-> "Bonus B82/3450", group0 |-> "Bonus B82/3450", manufacturer_code |-> "None", power2 |-> "None", powerOW |-> "None", powerDW |-> "None", powerMW |-> "None", powerKW |-> "None", diameter2 |-> "None", diameterDm |-> "None", swept_area |-> "None", known_unit |-> "None"],
    [manufacturer |-> "Bonus", diameter |-> "None", power |-> "None", radius |-> "None", rule |-> 45, name |-> "Bonus B82/3450", group0 |-> "Bonus B82/3450", manufacturer_code |-> "None", power2 |-> "None", powerOW |-> "None", powerDW |-> "None", powerMW |-> "None", powerKW |-> "None", diameter2 |-> "None", diameterDm |-> "None", swept_area |-> "None", known_unit |-> "None"],
    [manufacturer |-> "Bonus", diameter |-> "90", power |-> "1500", radius |-> "None", rule |-> 5, name |-> "Bonus B90/1500", group0 |-> "Bonus B90/1500", manufacturer_code |-> "None", power2 |-> "None", powerOW |-> "None", powerDW |-> "None", powerMW |-> "None", powerKW |-> "None", diameter2 |-> "None", diameterDm |-> "None", swept_area |-> "None", known_unit |-> "None"],
    [manufacturer |-> "Bonus", diameter |-> "None", power |-> "None", radius |-> "None", rule |-> 45, name |-> "Bonus B90/1500", group0 |-> "Bonus B90/1500", manufacturer_code |-> "None", power2 |-> "None", powerOW |-> "None", powerDW |-> "None", powerMW |-> "None", powerKW |-> "None", diameter2 |-> "None", diameterDm |-> "None", swept_area |-> "None", known_unit |-> "None"],
    [manufacturer |-> "Bonus", diameter |-> "90", power |-> "2000", radius |-> "None", rule |-> 5, name |-> "Bonus B90/2000", group0 |-> "Bonus B90/2000", manufacturer_code |-> "None", power2 |-> "None", powerOW |-> "None", powerDW |-> "None", powerMW |-> "None", powerKW |-> "None", diameter2 |-> "None", diameterDm |-> "None", swept_area |-> "None", known_unit |-> "None"],
    [manufacturer |-> "Bonus", diameter |-> "None", power |-> "None", radius |-> "None", rule |-> 45, name |-> "Bonus B90/2000", group0 |-> "Bonus B90/2000", manufacturer_code |-> "None", power2 |-> "None", powerOW |-> "None", powerDW |-> "None", powerMW |-> "None", powerKW |-> "None", diameter2 |-> "None", diameterDm |-> "None", swept_area |-> "None", known_unit |-> "None"],
    [manufacturer |-> "Bonus", diameter |-> "90", power |-> "225", radius |-> "None", rule |-> 5, name |-> "Bonus B90/225", group0 |-> "Bonus B90/225", manufacturer_code |-> "None", power2 |-> "None", powerOW |-> "None", powerDW |-> "None", powerMW |-> "None", powerKW |-> "None", diameter2 |-> "None", diameterDm |-> "None", swept_area |-> "None", known_unit |-> "None"],
    [manufacturer |-> "Bonus", diameter |-> "None", power |-> "None", radius |-> "None", rule |-> 45, name |-> "Bonus B90/225", group0 |-> "Bonus B90/225", manufacturer_code |-> "None", power2 |-> "None", powerOW |-> "None", powerDW |-> "None", powerMW |-> "None", powerKW |-> "None", diameter2 |-> "None", diameterDm |-> "None", swept_area |-> "None", known_unit |-> "None"],
    [manufacturer |-> "Bonus", diameter |-> "90", power |-> "3000", radius |-> "None", rule |-> 5, name |-> "Bonus B90/3000", group0 |-> "Bonus B90/3000", manufacturer_code |-> "None", power2 |-> "None", powerOW |-> "None", powerDW |-> "None", powerMW |-> "None", powerKW |-> "None", diameter2 |-> "None", diameterDm |-> "None", swept_area |-> "None", known_unit |-> "None"],
    [manufacturer |-> "Bonus", diameter |-> "None", power |-> "None", radius |-> "None", rule |-> 45, name |-> "Bonus B90/3000", group0 |-> "Bonus B90/3000", manufacturer_code |-> "None", power2 |-> "None", powerOW |-> "None", powerDW |-> "None", powerMW |-> "None", powerKW |-> "None", diameter2 |-> "None", diameterDm |-> "None", swept_area |-> "None", known_unit |-> "None"],
    [manufacturer |-> "Bonus", diameter |-> "90", power |-> "3450", radius |-> "None", rule |-> 5, name |-> "Bonus B90/3450", group0 |-> "Bonus B90/3450", manufacturer_code |-> "None", power2 |-> "None", powerOW |-> "None", powerDW |-> "None", powerMW |-> "None", powerKW |-> "None", diameter2 |-> "None", diameterDm |-> "None", swept_area |-> "None", known_unit |-> "None"],
    [manufacturer |-> "Bonus", diameter |-> "None", power |-> "None", radius |-> "None", rule |-> 45, name |-> "Bonus B90/3450", group0 |-> "Bonus B90/3450", manufacturer_code |-> "None", power2 |-> "None", powerOW |-> "None", powerDW |-> "None", powerMW |-> "None", powerKW |-> "None", diameter2 |-> "None", diameterDm |-> "None", swept_area |-> "None", known_unit |-> "None"],
    [manufacturer |-> "DeWind", diameter |-> "None", power |-> "None", radius |-> "None", rule |-> 32, name |-> "DeWind D150/1500", group0 |-> "DeWind D150", manufacturer_code |-> "None", power2 |-> "None", powerOW |-> "None", powerDW |-> "None", powerMW |-> "None", powerKW |-> "None", diameter2 |-> "None", diameterDm |-> "150", swept_area |-> "None", known_unit |-> "None"],
    [manufacturer |-> "DeWind", diameter |-> "None", power |-> "None", radius |-> "None", rule |-> 45, name |-> "DeWind D150/1500", group0 |-> "DeWind D150/1500", manufacturer_code |-> "None", power2 |-> "None", powerOW |-> "None", powerDW |-> "None", powerMW |-> "None", powerKW |-> "None", diameter2 |-> "None", diameterDm |-> "None", swept_area |-> "None", known_unit |-> "None"],
    [manufacturer |-> "DeWind", diameter |-> "None", power |-> "None", radius |-> "None", rule |-> 32, name |-> "DeWind D150/2000", group0 |-> "DeWind D150", manufacturer_code |-> "None", power2 |-> "None", powerOW |-> "None", powerDW |-> "None", powerMW |-> "None", powerKW |-> "None", diameter2 |-> "None", diameterDm |-> "150", swept_area |-> "None", known_unit |-> "None"],
    [manufacturer |-> "DeWind", diameter |-> "None", power |-> "None", radius |-> "None", rule |-> 45, name |-> "DeWind D150/2000", group0 |-> "DeWind D150/2000", manufacturer_code |-> "None", power2 |-> "None", powerOW |-> "None", powerDW |-> "None", powerMW |-> "None", powerKW |-> "None", diameter2 |-> "None", diameterDm |-> "None", swept_area |-> "None", known_unit |-> "None"],
    [manufacturer |-> "DeWind", diameter |-> "None", power |-> "None", radius |-> "None", rule |-> 32, name |-> "DeWind D150/225", group0 |-> "DeWind D150", manufacturer_code |-> "None", power2 |-> "None", powerOW |-> "None", powerDW |-> "None", powerMW |-> "None", powerKW |-> "None", diameter2 |-> "None", diameterDm |-> "150", swept_area |-> "None", known_unit |-> "None"],
    [manufacturer |-> "DeWind", diameter |-> "None", power |-> "None", radius |-> "None", rule |-> 45, name |-> "DeWind D150/225", group0 |-> "DeWind D150/225", manufacturer_code |-> "None", power2 |-> "None", powerOW |-> "None", powerDW |-> "None", powerMW |-> "None", powerKW |-> "None", diameter2 |-> "None", diameterDm |-> "None", swept_area |-> "None", known_unit |-> "None"],
    [manufacturer |-> "DeWind", diameter |-> "None", power |-> "None", radius |-> "None", rule |-> 32, name |-> "DeWind D150/3000", group0 |-> "DeWind D150", manufacturer_code |-> "None", power2 |-> "None", powerOW |-> "None", powerDW |-> "None", powerMW |-> "None", powerKW |-> "None", diameter2 |-> "None", diameterDm |-> "150", swept_area |-> "None", known_unit |-> "None"],
    [manufacturer |-> "DeWind", diameter |-> "None", power |-> "None", radius |-> "None", rule |-> 45, name |-> "DeWind D150/3000", group0 |-> "DeWind D150/3000", manufacturer_code |-> "None", power2 |-> "None", powerOW |-> "None", powerDW |-> "None", powerMW |-> "None", powerKW |-> "None", diameter2 |-> "None", diameterDm |-> "None", swept_area |-> "None", known_unit |-> "None"],
    [manufacturer |-> "DeWind", diameter |-> "None", power |-> "None", radius |-> "None", rule |-> 32, name |-> "DeWind D150/3450", group0 |-> "DeWind D150", manufacturer_code |-> "None", power2 |-> "None", powerOW |-> "None", powerDW |-> "None", powerMW |-> "None", powerKW |-> "None", diameter2 |-> "None", diameterDm |-> "150", swept_area |-> "None", known_unit |-> "None"],
    [manufacturer |-> "DeWind", diameter |-> "None", power |-> "None", radius |-> "None", rule |-> 45, name |-> "DeWind D150/3450", group0 |-> "DeWind D150/3450", manufacturer_code |-> "None", power2 |-> "None", powerOW |-> "None", powerDW |-> "None", powerMW |-> "None", powerKW |-> "None", diameter2 |-> "None", diameterDm |-> "None", swept_area |-> "None", known_unit |-> "None"],
    [manufacturer |-> "DeWind", diameter |-> "None", power |-> "None", radius |-> "None", rule |-> 32, name |-> "DeWind D30/1500", group0 |-> "DeWind D30", manufacturer_code |-> "None", power2 |-> "None", powerOW |-> "None", powerDW |-> "None", powerMW |-> "None", powerKW |-> "None", diameter2 |-> "None", diameterDm |-> "30", swept_area |-> "None", known_unit |-> "None"],
    [manufacturer |-> "DeWind", diameter |-> "None", power |-> "None", radius |-> "None", rule |-> 45, name |-> "DeWind D30/1500", group0 |-> "DeWind D30/1500", manufacturer_code |-> "None", power2 |-> "None", powerOW |-> "None", powerDW |-> "None", powerMW |-> "None", powerKW |-> "None", diameter2 |-> "None", diameterDm |-> "None", swept_area |-> "None", known_unit |-> "None"],
    [manufacturer |-> "DeWind", diameter |-> "None", power |-> "None", radius |-> "None", rule |-> 32, name |-> "DeWind D30/2000", group0 |-> "DeWind D30", manufacturer_code |-> "None", power2 |-> "None", powerOW |-> "None", powerDW |-> "None", powerMW |-> "None", powerKW |-> "None", diameter2 |-> "None", diameterDm |-> "30", swept_area |-> "None", known_unit |-> "None"],
    [manufacturer |-> "DeWind", diameter |-> "None", power |-> "None", radius |-> "None", rule |-> 45, name |-> "DeWind D30/2000", group0 |-> "DeWind D30/2000", manufacturer_code |-> "None", power2 |-> "None", powerOW |-> "None", powerDW |-> "None", powerMW |-> "None", powerKW |-> "None", diameter2 |-> "None", diameterDm |-> "None", swept_area |-> "None", known_unit |-> "None"],
    [manufacturer |-> "DeWind", diameter |-> "None", power |-> "None", radius |-> "None", rule |-> 32, name |-> "DeWind D30/225", group0 |-> "DeWind D30", manufacturer_code |-> "None", power2 |-> "None", powerOW |-> "None", powerDW |-> "None", powerMW |-> "None", powerKW |-> "None", diameter2 |-> "None", diameterDm |-> "30", swept_area |-> "None", known_unit |-> "None"],
    [manufacturer |-> "DeWind", diameter |-> "None", power |-> "None", radius |-> "None", rule |-> 45, name |-> "DeWind D30/225", group0 |-> "DeWind D30/225", manufacturer_code |-> "None", power2 |-> "None", powerOW |-> "None", powerDW |-> "None", powerMW |-> "None", powerKW |-> "None", diameter2 |-> "None", diameterDm |-> "None", swept_area |-> "None", known_unit |-> "None"],
    [manufacturer |-> "DeWind", diameter |-> "None", power |-> "None", radius |-> "None", rule |-> 32, name |-> "DeWind D30/3000", group0 |-> "DeWind D30", manufacturer_code |-> "None", power2 |-> "None", powerOW |-> "None", powerDW |-> "None", powerMW |-> "None", powerKW |-> "None", diameter2 |-> "None", diameterDm |-> "30", swept_area |-> "None", known_unit |-> "None"],
    [manufacturer |-> "DeWind", diameter |-> "None", power |-> "None", radius |-> "None", rule |-> 45, name |-> "DeWind D30/3000", group0 |-> "DeWind D30/3000", manufacturer_code |-> "None", power2 |-> "None", powerOW |-> "None", powerDW |-> "None", powerMW |-> "None", powerKW |-> "None", diameter2 |-> "None", diameterDm |-> "None", swept_area |-> "None", known_unit |-> "None"],
    [manufacturer |-> "DeWind", diameter |-> "None", power |-> "None", radius |-> "None", rule |-> 32, name |-> "DeWind D30/3450", group0 |-> "DeWind D30", manufacturer_code |-> "None", power2 |-> "None", powerOW |-> "None", powerDW |-> "None", powerMW |-> "None", powerKW |-> "None", diameter2 |-> "None", diameterDm |-> "30", swept_area |-> "None", known_unit |-> "None"],
    [manufacturer |-> "DeWind", diameter |-> "None", power |-> "None", radius |-> "None", rule |-> 45, name |-> "DeWind D30/3450", group0 |-> "DeWind D30/3450", manufacturer_code |-> "None", power2 |-> "None", powerOW |-> "None", powerDW |-> "None", powerMW |-> "None", powerKW |-> "None", diameter2 |-> "None", diameterDm |-> "None", swept_area |-> "None", known_unit |-> "None"],
    [manufacturer |-> "DeWind", diameter |-> "None", power |-> "None", radius |-> "None", rule |-> 32, name |-> "DeWind D82/1500", group0 |-> "DeWind D82", manufacturer_code |-> "None", power2 |-> "None", powerOW |-> "None", powerDW |-> "None", powerMW |-> "None", powerKW |-> "None", diameter2 |-> "None", diameterDm |-> "82", swept_area |-> "None", known_unit |-> "None"],
    [manufacturer |-> "DeWind", diameter |-> "None", power |-> "None", radius |-> "None", rule |-> 45, name |-> "DeWind D82/1500", group0 |-> "DeWind D82/1500", manufacturer_code |-> "None", power2 |-> "None", powerOW |-> "None", powerDW |-> "None", powerMW |-> "None", powerKW |-> "None", diameter2 |-> "None", diameterDm |-> "None", swept_area |-> "None", known_unit |-> "None"],
    [manufacturer |-> "DeWind", diameter |-> "None", power |-> "None", radius |-> "None", rule |-> 32, name |-> "DeWind D82/2000", group0 |-> "DeWind D82", manufacturer_code |-> "None", power2 |-> "None", powerOW |-> "None", powerDW |-> "None", powerMW |-> "None", powerKW |-> "None", diameter2 |-> "None", diameterDm |-> "82", swept_area |-> "None", known_unit |-> "None"],
    [manufacturer |-> "DeWind", diameter |-> "None", power |-> "None", radius |-> "None", rule |-> 45, name |-> "DeWind D82/2000", group0 |-> "DeWind D82/2000", manufacturer_code |-> "None", power2 |-> "None", powerOW |-> "None", powerDW |-> "None", powerMW |-> "None", powerKW |-> "None", diameter2 |-> "None", diameterDm |-> "None", swept_area |-> "None", known_unit |-> "None"],
    [manufacturer |-> "DeWind", diameter |-> "None", power |-> "None", radius |-> "None", rule |-> 32, name |-> "DeWind D82/225", group0 |-> "DeWind D82", manufacturer_code |-> "None", power2 |-> "None", powerOW |-> "None", powerDW |-> "None", powerMW |-> "None", powerKW |-> "None", diameter2 |-> "None", diameterDm |-> "82", swept_area |-> "None", known_unit |-> "None"],
    [manufacturer |-> "DeWind", diameter |-> "None", power |-> "None", radius |-> "None", rule |-> 45, name |-> "DeWind D82/225", group0 |-> "DeWind D82/225", manufacturer_code |-> "None", power2 |-> "None", powerOW |-> "None", powerDW |-> "None", powerMW |-> "None", powerKW |-> "None", diameter2 |-> "None", diameterDm |-> "None", swept_area |-> "None", known_unit |-> "None"],
    [manufacturer |-> "DeWind", diameter |-> "None", power |-> "None", radius |-> "None", rule |-> 32, name |-> "DeWind D82/3000", group0 |-> "DeWind D82", manufacturer_code |-> "None", power2 |-> "None", powerOW |-> "None", powerDW |-> "None", powerMW |-> "None", powerKW |-> "None", diameter2 |-> "None", diameterDm |-> "82", swept_area |-> "None", known_unit |-> "None"],
    [manufacturer |-> "DeWind", diameter |-> "None", power |-> "None", radius |-> "None", rule |-> 45, name |-> "DeWind D82/3000", group0 |-> "DeWind D82/3000", manufacturer_code |-> "None", power2 |-> "None", powerOW |-> "None", powerDW |-> "None", powerMW |-> "None", powerKW |-> "None", diameter2 |-> "None", diameterDm |-> "None", swept_area |-> "None", known_unit |-> "None"],
    [manufacturer |-> "DeWind", diameter |-> "None", power |-> "None", radius |-> "None", rule |-> 32, name |-> "DeWind D82/3450", group0 |-> "DeWind D82", manufacturer_code |-> "None", power2 |-> "None", powerOW |-> "None", powerDW |-> "None", powerMW |-> "None", powerKW |-> "None", diameter2 |-> "None", diameterDm |-> "82", swept_area |-> "None", known_unit |-> "None"],
    [manufacturer |-> "DeWind", diameter |-> "None", power |-> "None", radius |-> "None", rule |-> 45, name |-> "DeWind D82/3450", group0 |-> "DeWind D82/3450", manufacturer_code |-> "None", power2 |-> "None", powerOW |-> "None", powerDW |-> "None", powerMW |-> "None", powerKW |-> "None", diameter2 |-> "None", diameterDm |-> "None", swept_area |-> "None", known_unit |-> "None"],
    [manufacturer |-> "DeWind", diameter |-> "None", power |-> "None", radius |-> "None", rule |-> 32, name |-> "DeWind D90/1500", group0 |-> "DeWind D90", manufacturer_code |-> "None", power2 |-> "None", powerOW |-> "None", powerDW |-> "None", powerMW |-> "None", powerKW |-> "None", diameter2 |-> "None", diameterDm |-> "90", swept_area |-> "None", known_unit |-> "None"],
    [manufacturer |-> "DeWind", diameter |-> "None", power |-> "None", radius |-> "None", rule |-> 45, name |-> "DeWind D90/1500", group0 |-> "DeWind D90/1500", manufacturer_code |-> "None", power2 |-> "None", powerOW |-> "None", powerDW |-> "None", powerMW |-> "None", powerKW |-> "None", diameter2 |-> "None", diameterDm |-> "None", swept_area |-> "None", known_unit |-> "None"],
    [manufacturer |-> "DeWind", diameter |-> "None", power |-> "None", radius |-> "None", rule |-> 32, name |-> "DeWind D90/2000", group0 |-> "DeWind D90", manufacturer_code |-> "None", power2 |-> "None", powerOW |-> "None", powerDW |-> "None", powerMW |-> "None", powerKW |-> "None", diameter2 |-> "None", diameterDm |-> "90", swept_area |-> "None", known_unit |-> "None"],
    [manufacturer |-> "DeWind", diameter |-> "None", power |-> "None", radius |-> "None", rule |-> 45, name |-> "DeWind D90/2000", group0 |-> "DeWind D90/2000", manufacturer_code |-> "None", power2 |-> "None", powerOW |-> "None", powerDW |-> "None", powerMW |-> "None", powerKW |-> "None", diameter2 |-> "None", diameterDm |-> "None", swept_area |-> "None", known_unit |-> "None"],
    [manufacturer |-> "DeWind", diameter |-> "None", power |-> "None", radius |-> "None", rule |-> 32, name |-> "DeWind D90/225", group0 |-> "DeWind D90", manufacturer_code |-> "None", power2 |-> "None", powerOW |-> "None", powerDW |-> "None", powerMW |-> "None", powerKW |-> "None", diameter2 |-> "None", diameterDm |-> "90", swept_area |-> "None", known_unit |-> "None"],
    [manufacturer |-> "DeWind", diameter |-> "None", power |-> "None", radius |-> "None", rule |-> 45, name |-> "DeWind D90/225", group0 |-> "DeWind D90/225", manufacturer_code |-> "None", power2 |-> "None", powerOW |-> "None", powerDW |-> "None", powerMW |-> "None", powerKW |-> "None", diameter2 |-> "None", diameterDm |-> "None", swept_area |-> "None", known_unit |-> "None"],
    [manufacturer |-> "DeWind", diameter |-> "None", power |-> "None", radius |-> "None", rule |-> 32, name |-> "DeWind D90/3000", group0 |-> "DeWind D90", manufacturer_code |-> "None", power2 |-> "None", powerOW |-> "None", powerDW |-> "None", powerMW |-> "None", powerKW |-> "None", diameter2 |-> "None", diameterDm |-> "90", swept_area |-> "None", known_unit |-> "None"],
    [manufacturer |-> "DeWind", diameter |-> "None", power |-> "None", radius |-> "None", rule |-> 45, name |-> "DeWind D90/3000", group0 |-> "DeWind D90/3000", manufacturer_code |-> "None", power2 |-> "None", powerOW |-> "None", powerDW |-> "None", powerMW |-> "None", powerKW |-> "None", diameter2 |-> "None", diameterDm |-> "None", swept_area |-> "None", known_unit |-> "None"],
    [manufacturer |-> "DeWind", diameter |-> "None", power |-> "None", radius |-> "None", rule |-> 32, name |-> "DeWind D90/3450", group0 |-> "DeWind D90", manufacturer_code |-> "None", power2 |-> "None", powerOW |-> "None", powerDW |-> "None", powerMW |-> "None", powerKW |-> "None", diameter2 |-> "None", diameterDm |-> "90", swept_area |-> "None", known_unit |-> "None"],
    [manufacturer |-> "DeWind", diameter |-> "None", power |-> "None", radius |-> "None", rule |-> 45, name |-> "DeWind D90/3450", group0 |-> "DeWind D90/3450", manufacturer_code |-> "None", power2 |-> "None", powerOW |-> "None", powerDW |-> "None", powerMW |-> "None", powerKW |-> "None", diameter2 |-> "None", diameterDm |-> "None", swept_area |-> "None", known_unit |-> "None"],
    [manufacturer |-> "Enercon", diameter |-> "150", power |-> "None", radius |-> "None", rule |-> 2, name |-> "Enercon E-150 / 225", group0 |-> "Enercon E-150 / 225", manufacturer_code |-> "None", power2 |-> "None", powerOW |-> "225", powerDW |-> "None", powerMW |-> "None", powerKW |-> "None", diameter2 |-> "None", diameterDm |-> "None", swept_area |-> "None", known_unit |-> "None"],
    [manufacturer |-> "Enercon", diameter |-> "None", power |-> "None", radius |-> "None", rule |-> 45, name |-> "Enercon E-150 / 225", group0 |-> "Enercon E-150", manufacturer_code |-> "None", power2 |-> "None", powerOW |-> "None", powerDW |-> "None", powerMW |-> "None", powerKW |-> "None", diameter2 |-> "None", diameterDm |-> "None", swept_area |-> "None", known_unit |-> "None"],
    [manufacturer |-> "Enercon", diameter |-> "150", power |-> "2.000", radius |-> "None", rule |-> 2, name |-> "Enercon E-150 2.000", group0 |-> "Enercon E-150 2.000", manufacturer_code |-> "None", power2 |-> "None", powerOW |-> "None", powerDW |-> "None", powerMW |-> "None", powerKW |-> "None", diameter2 |-> "None", diameterDm |-> "None", swept_area |-> "None", known_unit |-> "None"],
    [manufacturer |-> "Enercon", diameter |-> "None", power |-> "None", radius |-> "None", rule |-> 45, name |-> "Enercon E-150 2.000", group0 |-> "Enercon E-150", manufacturer_code |-> "None", power2 |-> "None", powerOW |-> "None", powerDW |-> "None", powerMW |-> "None", powerKW |-> "None", diameter2 |-> "None", diameterDm |-> "None", swept_area |-> "None", known_unit |-> "None"],
    [manufacturer |-> "Enercon", diameter |-> "150", power |-> "3.000", radius |-> "None", rule |-> 2, name |-> "Enercon E-150 3.000", group0 |-> "Enercon E-150 3.000", manufacturer_code |-> "None", power2 |-> "None", powerOW |-> "None", powerDW |-> "None", powerMW |-> "None", powerKW |-> "None", diameter2 |-> "None", diameterDm |-> "None", swept_area |-> "None", known_unit |-> "None"],
    [manufacturer |-> "Enercon", diameter |-> "None", power |-> "None", radius |-> "None", rule |-> 45, name |-> "Enercon E-150 3.000", group0 |-> "Enercon E-150", manufacturer_code |-> "None", power2 |-> "None", powerOW |-> "None", powerDW |-> "None", powerMW |-> "None", powerKW |-> "None", diameter2 |-> "None", diameterDm |-> "None", swept_area |-> "None", known_unit |-> "None"],
    [manufacturer |-> "Enercon", diameter |-> "150", power |-> "3.450", radius |-> "None", rule |-> 2, name |-> "Enercon E-150 3.450", group0 |-> "Enercon E-150 3.450", manufacturer_code |-> "None", power2 |-> "None", powerOW |-> "None", powerDW |-> "None", powerMW |-> "None", powerKW |-> "None", diameter2 |-> "None", diameterDm |-> "None", swept_area |-> "None", known_unit |-> "None"],
    [manufacturer |-> "Enercon", diameter |-> "None", power |-> "None", radius |-> "None", rule |-> 45, name |-> "Enercon E-150 3.450", group0 |-> "Enercon E-150", manufacturer_code |-> "None", power2 |-> "None", powerOW |-> "None", powerDW |-> "None", powerMW |-> "None", powerKW |-> "None", diameter2 |-> "None", diameterDm |-> "None", swept_area |-> "None", known_unit |-> "None"],
    [manufacturer |-> "Enercon", diameter |-> "150", power |-> "None", radius |-> "None", rule |-> 2, name |-> "Enercon E-150/15.150", group0 |-> "Enercon E-150/15.150", manufacturer_code |-> "None", power2 |-> "None", powerOW |-> "15", powerDW |-> "None", powerMW |-> "None", powerKW |-> "None", diameter2 |-> "150", diameterDm |-> "None", swept_area |-> "None", known_unit |-> "None"],
    [manufacturer |-> "Enercon", diameter |-> "None", power |-> "None", radius |-> "None", rule |-> 45, name |-> "Enercon E-150/15.150", group0 |-> "Enercon E-150/15.150", manufacturer_code |-> "None", power2 |-> "None", powerOW |-> "None", powerDW |-> "None", powerMW |-> "None", powerKW |-> "None", diameter2 |-> "None", diameterDm |-> "None", swept_area |-> "None", known_unit |-> "None"],
    [manufacturer |-> "Enercon", diameter |-> "30", power |-> "None", radius |-> "None", rule |-> 2, name |-> "Enercon E-30 / 225", group0 |-> "Enercon E-30 / 225", manufacturer_code |-> "None", power2 |-> "None", powerOW |-> "225", powerDW |-> "None", powerMW |-> "None", powerKW |-> "None", diameter2 |-> "None", diameterDm |-> "None", swept_area |-> "None", known_unit |-> "None"],
    [manufacturer |-> "Enercon", diameter |-> "None", power |-> "None", radius |-> "None", rule |-> 45, name |-> "Enercon E-30 / 225", group0 |-> "Enercon E-30", manufacturer_code |-> "None", power2 |-> "None", powerOW |-> "None", powerDW |-> "None", powerMW |-> "None", powerKW |-> "None", diameter2 |-> "None", diameterDm |-> "None", swept_area |-> "None", known_unit |-> "None"],
    [manufacturer |-> "Enercon", diameter |-> "30", power |-> "2.000", radius |-> "None", rule |-> 2, name |-> "Enercon E-30 2.000", group0 |-> "Enercon E-30 2.000", manufacturer_code |-> "None", power2 |-> "None", powerOW |-> "None", powerDW |-> "None", powerMW |-> "None", powerKW |-> "None", diameter2 |-> "None", diameterDm |-> "None", swept_area |-> "None", known_unit |-> "None"],
    [manufacturer |-> "Enercon", diameter |-> "None", power |-> "None", radius |-> "None", rule |-> 45, name |-> "Enercon E-30 2.000", group0 |-> "Enercon E-30", manufacturer_code |-> "None", power2 |-> "None", powerOW |-> "None", powerDW |-> "None", powerMW |-> "None", powerKW |-> "None", diameter2 |-> "None", diameterDm |-> "None", swept_area |-> "None", known_unit |-> "None"],
    [manufacturer |-> "Enercon", diameter |-> "30", power |-> "3.000", radius |-> "None", rule |-> 2, name |-> "Enercon E-30 3.000", group0 |-> "Enercon E-30 3.000", manufacturer_code |-> "None", power2 |-> "None", powerOW |-> "None", powerDW |-> "None", powerMW |-> "None", powerKW |-> "None", diameter2 |-> "None", diameterDm |-> "None", swept_area |-> "None", known_unit |-> "None"],
    [manufacturer |-> "Enercon", diameter |-> "None", power |-> "None", radius |-> "None", rule |-> 45, name |-> "Enercon E-30 3.000", group0 |-> "Enercon E-30", manufacturer_code |-> "None", power2 |-> "None", powerOW |-> "None", powerDW |-> "None", powerMW |-> "None", powerKW |-> "None", diameter2 |-> "None", diameterDm |-> "None", swept_area |-> "None", known_unit |-> "None"],
    [manufacturer |-> "Enercon", diameter |-> "30", power |-> "3.450", radius |-> "None", rule |-> 2, name |-> "Enercon E-30 3.450", group0 |-> "Enercon E-30 3.450", manufacturer_code |-> "None", power2 |-> "None", powerOW |-> "None", powerDW |-> "None", powerMW |-> "None", powerKW |-> "None", diameter2 |-> "None", diameterDm |-> "None", swept_area |-> "None", known_unit |-> "None"],
    [manufacturer |-> "Enercon", diameter |-> "None", power |-> "None", radius |-> "None", rule |-> 45, name |-> "Enercon E-30 3.450", group0 |-> "Enercon E-30", manufacturer_code |-> "None", power2 |-> "None", powerOW |-> "None", powerDW |-> "None", powerMW |-> "None", powerKW |-> "None", diameter2 |-> "None", diameterDm |-> "None", swept_area |-> "None", known_unit |-> "None"],
    [manufacturer |-> "Enercon", diameter |-> "30", power |-> "None", radius |-> "None", rule |-> 2, name |-> "Enercon E-30/15.30", group0 |-> "Enercon E-30/15.30", manufacturer_code |-> "None", power2 |-> "None", powerOW |-> "15", powerDW |-> "None", powerMW |-> "None", powerKW |-> "None", diameter2 |-> "30", diameterDm |-> "None", swept_area |-> "None", known_unit |-> "None"],
    [manufacturer |-> "Enercon", diameter |-> "None", power |-> "None", radius |-> "None", rule |-> 45, name |-> "Enercon E-30/15.30", group0 |-> "Enercon E-30/15.30", manufacturer_code |-> "None", power2 |-> "None", powerOW |-> "None", powerDW |-> "None", powerMW |-> "None", powerKW |-> "None", diameter2 |-> "None", diameterDm |-> "None", swept_area |-> "None", known_unit |-> "None"],
    [manufacturer |-> "Enercon", diameter |-> "82", power |-> "None", radius |-> "None", rule |-> 2, name |-> "Enercon E-82 / 225", group0 |-> "Enercon E-82 / 225", manufacturer_code |-> "None", power2 |-> "None", powerOW |-> "225", powerDW |-> "None", powerMW |-> "None", powerKW |-> "None", diameter2 |-> "None", diameterDm |-> "None", swept_area |-> "None", known_unit |-> "None"],
    [manufacturer |-> "Enercon", diameter |-> "None", power |-> "None", radius |-> "None", rule |-> 45, name |-> "Enercon E-82 / 225", group0 |-> "Enercon E-82", manufacturer_code |-> "None", power2 |-> "None", powerOW |-> "None", powerDW |-> "None", powerMW |-> "None", powerKW |-> "None", diameter2 |-> "None", diameterDm |-> "None", swept_area |-> "None", known_unit |-> "None"],
    [manufacturer |-> "Enercon", diameter |-> "82", power |-> "2.000", radius |-> "None", rule |-> 2, name |-> "Enercon E-82 2.000", group0 |-> "Enercon E-82 2.000", manufacturer_code |-> "None", power2 |-> "None", powerOW |-> "None", powerDW |-> "None", powerMW |-> "None", powerKW |-> "None", diameter2 |-> "None", diameterDm |-> "None", swept_area |-> "None", known_unit |-> "None"],
    [manufacturer |-> "Enercon", diameter |-> "None", power |-> "None", radius |-> "None", rule |-> 45, name |-> "Enercon E-82 2.000", group0 |-> "Enercon E-82", manufacturer_code |-> "None", power2 |-> "None", powerOW |-> "None", powerDW |-> "None", powerMW |-> "None", powerKW |-> "None", diameter2 |-> "None", diameterDm |-> "None", swept_area |-> "None", known_unit |-> "None"],
    [manufacturer |-> "Enercon", diameter |-> "82", power |-> "3.000", radius |-> "None", rule |-> 2, name |-> "Enercon E-82 3.000", group0 |-> "Enercon E-82 3.000", manufacturer_code |-> "None", power2 |-> "None", powerOW |-> "None", powerDW |-> "None", powerMW |-> "None", powerKW |-> "None", diameter2 |-> "None", diameterDm |-> "None", swept_area |-> "None", known_unit |-> "None"],
    [manufacturer |-> "Enercon", diameter |-> "None", power |-> "None", radius |-> "None", rule |-> 45, name |-> "Enercon E-82 3.000", group0 |-> "Enercon E-82", manufacturer_code |-> "None", power2 |-> "None", powerOW |-> "None", powerDW |-> "None", powerMW |-> "None", powerKW |-> "None", diameter2 |-> "None", diameterDm |-> "None", swept_area |-> "None", known_unit |-> "None"],
    [manufacturer |-> "Enercon", diameter |-> "82", power |-> "3.450", radius |-> "None", rule |-> 2, name |-> "Enercon E-82 3.450", group0 |-> "Enercon E-82 3.450", manufacturer_code |-> "None", power2 |-> "None", powerOW |-> "None", powerDW |-> "None", powerMW |-> "None", powerKW |-> "None", diameter2 |-> "None", diameterDm |-> "None", swept_area |-> "None", known_unit |-> "None"],
    [manufacturer |-> "Enercon", diameter |-> "None", power |-> "None", radius |-> "None", rule |-> 45, name |-> "Enercon E-82 3.450", group0 |-> "Enercon E-82", manufacturer_code |-> "None", power2 |-> "None", powerOW |-> "None", powerDW |-> "None", powerMW |-> "None", powerKW |-> "None", diameter2 |-> "None", diameterDm |-> "None", swept_area |-> "None", known_unit |-> "None"],
    [manufacturer |-> "Enercon", diameter |-> "82", power |-> "None", radius |-> "None", rule |-> 2, name |-> "Enercon E-82/15.82", group0 |-> "Enercon E-82/15.82", manufacturer_code |-> "None", power2 |-> "None", powerOW |-> "15", powerDW |-> "None", powerMW |-> "None", powerKW |-> "None", diameter2 |-> "82", diameterDm |-> "None", swept_area |-> "None", known_unit |-> "None"],
    [manufacturer |-> "Enercon", diameter |-> "None", power |-> "None", radius |-> "None", rule |-> 45, name |-> "Enercon E-82/15.82", group0 |-> "Enercon E-82/15.82", manufacturer_code |-> "None", power2 |-> "None", powerOW |-> "None", powerDW |-> "None", powerMW |-> "None", powerKW |-> "None", diameter2 |-> "None", diameterDm |-> "None", swept_area |-> "None", known_unit |-> "None"],
    [manufacturer |-> "Enercon", diameter |-> "90", power |-> "None", radius |-> "None", rule |-> 2, name |-> "Enercon E-90 / 225", group0 |-> "Enercon E-90 / 225", manufacturer_code |-> "None", power2 |-> "None", powerOW |-> "225", powerDW |-> "None", powerMW |-> "None", powerKW |-> "None", diameter2 |-> "None", diameterDm |-> "None", swept_area |-> "None", known_unit |-> "None"],
    [manufacturer |-> "Enercon", diameter |-> "None", power |-> "None", radius |-> "None", rule |-> 45, name |-> "Enercon E-90 / 225", group0 |-> "Enercon E-90", manufacturer_code |-> "None", power2 |-> "None", powerOW |-> "None", powerDW |-> "None", powerMW |-> "None", powerKW |-> "None", diameter2 |-> "None", diameterDm |-> "None", swept_area |-> "None", known_unit |-> "None"],
    [manufacturer |-> "Enercon", diameter |-> "90", power |-> "2.000", radius |-> "None", rule |-> 2, name |-> "Enercon E-90 2.000", group0 |-> "Enercon E-90 2.000", manufacturer_code |-> "None", power2 |-> "None", powerOW |-> "None", powerDW |-> "None", powerMW |-> "None", powerKW |-> "None", diameter2 |-> "None", diameterDm |-> "None", swept_area |-> "None", known_unit |-> "None"],
    [manufacturer |-> "Enercon", diameter |-> "None", power |-> "None", radius |-> "None", rule |-> 45, name |-> "Enercon E-90 2.000", group0 |-> "Enercon E-90", manufacturer_code |-> "None", power2 |-> "None", powerOW |-> "None", powerDW |-> "None", powerMW |-> "None", powerKW |-> "None", diameter2 |-> "None", diameterDm |-> "None", swept_area |-> "None", known_unit |-> "None"],
    [manufacturer |-> "Enercon", diameter |-> "90", power |-> "3.000", radius |-> "None", rule |-> 2, name |-> "Enercon E-90 3.000", group0 |-> "Enercon E-90 3.000", manufacturer_code |-> "None", power2 |-> "None", powerOW |-> "None", powerDW |-> "None", powerMW |-> "None", powerKW |-> "None", diameter2 |-> "None", diameterDm |-> "None", swept_area |-> "None", known_unit |-> "None"],
    [manufacturer |-> "Enercon", diameter |-> "None", power |-> "None", radius |-> "None", rule |-> 45, name |-> "Enercon E-90 3.000", group0 |-> "Enercon E-90", manufacturer_code |-> "None", power2 |-> "None", powerOW |-> "None", powerDW |-> "None", powerMW |-> "None", powerKW |-> "None", diameter2 |-> "None", diameterDm |-> "None", swept_area |-> "None", known_unit |-> "None"],
    [manufacturer |-> "Enercon", diameter |-> "90", power |-> "3.450", radius |-> "None", rule |-> 2, name |-> "Enercon E-90 3.450", group0 |-> "Enercon E-90 3.450", manufacturer_code |-> "None", power2 |-> "None", powerOW |-> "None", powerDW |-> "None", powerMW |-> "None", powerKW |-> "None", diameter2 |-> "None", diameterDm |-> "None", swept_area |-> "None", known_unit |-> "None"],
    [manufacturer |-> "Enercon", diameter |-> "None", power |-> "None", radius |-> "None", rule |-> 45, name |-> "Enercon E-90 3.450", group0 |-> "Enercon E-90", manufacturer_code |-> "None", power2 |-> "None", powerOW |-> "None", powerDW |-> "None", powerMW |-> "None", powerKW |-> "None", diameter2 |-> "None", diameterDm |-> "None", swept_area |-> "None", known_unit |-> "None"],
    [manufacturer |-> "Enercon", diameter |-> "90", power |-> "None", radius |-> "None", rule |-> 2, name |-> "Enercon E-90/15.90", group0 |-> "Enercon E-90/15.90", manufacturer_code |-> "None", power2 |-> "None", powerOW |-> "15", powerDW |-> "None", powerMW |-> "None", powerKW |-> "None", diameter2 |-> "90", diameterDm |-> "None", swept_area |-> "None", known_unit |-> "None"],
    [manufacturer |-> "Enercon", diameter |-> "None", power |-> "None", radius |-> "None", rule |-> 45, name |-> "Enercon E-90/15.90", group0 |-> "Enercon E-90/15.90", manufacturer_code |-> "None", power2 |-> "None", powerOW |-> "None", powerDW |-> "None", powerMW |-> "None", powerKW |-> "None", diameter2 |-> "None", diameterDm |-> "None", swept_area |-> "None", known_unit |-> "None"],
    [manufacturer |-> "Enercon", diameter |-> "82", power |-> "None", radius |-> "None", rule |-> 2, name |-> "Enercon E82", group0 |-> "Enercon E82", manufacturer_code |-> "None", power2 |-> "None", powerOW |-> "None", powerDW |-> "None", powerMW |-> "None", powerKW |-> "None", diameter2 |-> "None", diameterDm |-> "None", swept_area |-> "None", known_unit |-> "None"],
    [manufacturer |-> "Enercon", diameter |-> "None", power |-> "None", radius |-> "None", rule |-> 45, name |-> "Enercon E82", group0 |-> "Enercon E82", manufacturer_code |-> "None", power2 |-> "None", powerOW |-> "None", powerDW |-> "None", powerMW |-> "None", powerKW |-> "None", diameter2 |-> "None", diameterDm |-> "None", swept_area |-> "None", known_unit |-> "None"],
    [manufacturer |-> "None", diameter |-> "090", power |-> "None", radius |-> "None", rule |-> 44, name |-> "FO_09001", group0 |-> "FO_09001", manufacturer_code |-> "01", power2 |-> "None", powerOW |-> "None", powerDW |-> "None", powerMW |-> "None", powerKW |-> "None", diameter2 |-> "None", diameterDm |-> "None", swept_area |-> "None", known_unit |-> "None"],
    [manufacturer |-> "Gaia", diameter |-> "None", power |-> "None", radius |-> "None", rule |-> 37, name |-> "Gaia 133-11kW", group0 |-> "Gaia 133-11kW", manufacturer_code |-> "None", power2 |-> "None", powerOW |-> "None", powerDW |-> "None", powerMW |-> "None", powerKW |-> "11", diameter2 |-> "None", diameterDm |-> "None", swept_area |-> "133", known_unit |-> "None"],
    [manufacturer |-> "Micon", diameter |-> "530", power |-> "None", radius |-> "None", rule |-> 22, name |-> "Micon M 530-250", group0 |-> "Micon M 530-250", manufacturer_code |-> "None", power2 |-> "None", powerOW |-> "None", powerDW |-> "None", powerMW |-> "None", powerKW |-> "250", diameter2 |-> "None", diameterDm |-> "None", swept_area |-> "None", known_unit |-> "None"],
    [manufacturer |-> "Micon", diameter |-> "None", power |-> "None", radius |-> "None", rule |-> 45, name |-> "Micon M 530-250", group0 |-> "Micon M 530-250", manufacturer_code |-> "None", power2 |-> "None", powerOW |-> "None", powerDW |-> "None", powerMW |-> "None", powerKW |-> "None", diameter2 |-> "None", diameterDm |-> "None", swept_area |-> "None", known_unit |-> "None"],
    [manufacturer |-> "NEG Micon", diameter |-> "1500", power |-> "None", radius |-> "None", rule |-> 22, name |-> "NEG Micon NM 1500/64", group0 |-> "NEG Micon NM 1500/64", manufacturer_code |-> "None", power2 |-> "None", powerOW |-> "None", powerDW |-> "None", powerMW |-> "None", powerKW |-> "64", diameter2 |-> "None", diameterDm |-> "None", swept_area |-> "None", known_unit |-> "None"],
    [manufacturer |-> "NEG", diameter |-> "None", power |-> "None", radius |-> "None", rule |-> 23, name |-> "NEG Micon NM 1500/64", group0 |-> "NEG", manufacturer_code |-> "None", power2 |-> "None", powerOW |-> "None", powerDW |-> "None", powerMW |-> "None", powerKW |-> "None", diameter2 |-> "None", diameterDm |-> "None", swept_area |-> "None", known_unit |-> "None"],
    [manufacturer |-> "Nordex", diameter |-> "150", power |-> "0.2", radius |-> "None", rule |-> 18, name |-> "Nordex N150/0.2", group0 |-> "Nordex N150/0.2", manufacturer_code |-> "None", power2 |-> "None", powerOW |-> "None", powerDW |-> "None", powerMW |-> "None", powerKW |-> "None", diameter2 |-> "None", diameterDm |-> "None", swept_area |-> "None", known_unit |-> "None"],
    [manufacturer |-> "Nordex", diameter |-> "None", power |-> "None", radius |-> "None", rule |-> 45, name |-> "Nordex N150/0.2", group0 |-> "Nordex N150/0.2", manufacturer_code |-> "None", power2 |-> "None", powerOW |-> "None", powerDW |-> "None", powerMW |-> "None", powerKW |-> "None", diameter2 |-> "None", diameterDm |-> "None", swept_area |-> "None", known_unit |-> "None"],
    [manufacturer |-> "Nordex", diameter |-> "150", power |-> "1.5", radius |-> "None", rule |-> 18, name |-> "Nordex N150/1.5", group0 |-> "Nordex N150/1.5", manufacturer_code |-> "None", power2 |-> "None", powerOW |-> "None", powerDW |-> "None", powerMW |-> "None", powerKW |-> "None", diameter2 |-> "None", diameterDm |-> "None", swept_area |-> "None", known_unit |-> "None"],
    [manufacturer |-> "Nordex", diameter |-> "None", power |-> "None", radius |-> "None", rule |-> 45, name |-> "Nordex N150/1.5", group0 |-> "Nordex N150/1.5", manufacturer_code |-> "None", power2 |-> "None", powerOW |-> "None", powerDW |-> "None", powerMW |-> "None", powerKW |-> "None", diameter2 |-> "None", diameterDm |-> "None", swept_area |-> "None", known_unit |-> "None"],
    [manufacturer |-> "Nordex", diameter |-> "150", power |-> "2.0", radius |-> "None", rule |-> 18, name |-> "Nordex N150/2.0", group0 |-> "Nordex N150/2.0", manufacturer_code |-> "None", power2 |-> "None", powerOW |-> "None", powerDW |-> "None", powerMW |-> "None", powerKW |-> "None", diameter2 |-> "None", diameterDm |-> "None", swept_area |-> "None", known_unit |-> "None"],
    [manufacturer |-> "Nordex", diameter |-> "None", power |-> "None", radius |-> "None", rule |-> 45, name |-> "Nordex N150/2.0", group0 |-> "Nordex N150/2.0", manufacturer_code |-> "None", power2 |-> "None", powerOW |-> "None", powerDW |-> "None", powerMW |-> "None", powerKW |-> "None", diameter2 |-> "None", diameterDm |-> "None", swept_area |-> "None", known_unit |-> "None"],
    [manufacturer |-> "Nordex", diameter |-> "150", power |-> "3.0", radius |-> "None", rule |-> 18, name |-> "Nordex N150/3.0", group0 |-> "Nordex N150/3.0", manufacturer_code |-> "None", power2 |-> "None", powerOW |-> "None", powerDW |-> "None", powerMW |-> "None", powerKW |-> "None", diameter2 |-> "None", diameterDm |-> "None", swept_area |-> "None", known_unit |-> "None"],
    [manufacturer |-> "Nordex", diameter |-> "None", power |-> "None", radius |-> "None", rule |-> 45, name |-> "Nordex N150/3.0", group0 |-> "Nordex N150/3.0", manufacturer_code |-> "None", power2 |-> "None", powerOW |-> "None", powerDW |-> "None", powerMW |-> "None", powerKW |-> "None", diameter2 |-> "None", diameterDm |-> "None", swept_area |-> "None", known_unit |-> "None"],
    [manufacturer |-> "Nordex", diameter |-> "150", power |-> "3.5", radius |-> "None", rule |-> 18, name |-> "Nordex N150/3.5", group0 |-> "Nordex N150/3.5", manufacturer_code |-> "None", power2 |-> "None", powerOW |-> "None", powerDW |-> "None", powerMW |-> "None", powerKW |-> "None", diameter2 |-> "None", diameterDm |-> "None", swept_area |-> "None", known_unit |-> "None"],
    [manufacturer |-> "Nordex", diameter |-> "None", power |-> "None", radius |-> "None", rule |-> 45, name |-> "Nordex N150/3.5", group0 |-> "Nordex N150/3.5", manufacturer_code |-> "None", power2 |-> "None", powerOW |-> "None", powerDW |-> "None", powerMW |-> "None", powerKW |-> "None", diameter2 |-> "None", diameterDm |-> "None", swept_area |-> "None", known_unit |-> "None"],
    [manufacturer |-> "Nordex", diameter |-> "30", power |-> "1500", radius |-> "None", rule |-> 18, name |-> "Nordex N30/1500", group0 |-> "Nordex N30/1500", manufacturer_code |-> "None", power2 |-> "None", powerOW |-> "None", powerDW |-> "None", powerMW |-> "None", powerKW |-> "None", diameter2 |-> "None", diameterDm |-> "None", swept_area |-> "None", known_unit |-> "None"],
    [manufacturer |-> "Nordex", diameter |-> "None", power |-> "None", radius |-> "None", rule |-> 45, name |-> "Nordex N30/1500", group0 |-> "Nordex N30/1500", manufacturer_code |-> "None", power2 |-> "None", powerOW |-> "None", powerDW |-> "None", powerMW |-> "None", powerKW |-> "None", diameter2 |-> "None", diameterDm |-> "None", swept_area |-> "None", known_unit |-> "None"],
    [manufacturer |-> "Nordex", diameter |-> "30", power |-> "2000", radius |-> "None", rule |-> 18, name |-> "Nordex N30/2000", group0 |-> "Nordex N30/2000", manufacturer_code |-> "None", power2 |-> "None", powerOW |-> "None", powerDW |-> "None", powerMW |-> "None", powerKW |-> "None", diameter2 |-> "None", diameterDm |-> "None", swept_area |-> "None", known_unit |-> "None"],
    [manufacturer |-> "Nordex", diameter |-> "None", power |-> "None", radius |-> "None", rule |-> 45, name |-> "Nordex N30/2000", group0 |-> "Nordex N30/2000", manufacturer_code |-> "None", power2 |-> "None", powerOW |-> "None", powerDW |-> "None", powerMW |-> "None", powerKW |-> "None", diameter2 |-> "None", diameterDm |-> "None", swept_area |-> "None", known_unit |-> "None"],
    [manufacturer |-> "Nordex", diameter |-> "30", power |-> "225", radius |-> "None", rule |-> 18, name |-> "Nordex N30/225", group0 |-> "Nordex N30/225", manufacturer_code |-> "None", power2 |-> "None", powerOW |-> "None", powerDW |-> "None", powerMW |-> "None", powerKW |-> "None", diameter2 |-> "None", diameterDm |-> "None", swept_area |-> "None", known_unit |-> "None"],
    [manufacturer |-> "Nordex", diameter |-> "None", power |-> "None", radius |-> "None", rule |-> 45, name |-> "Nordex N30/225", group0 |-> "Nordex N30/225", manufacturer_code |-> "None", power2 |-> "None", powerOW |-> "None", powerDW |-> "None", powerMW |-> "None", powerKW |-> "None", diameter2 |-> "None", diameterDm |-> "None", swept_area |-> "None", known_unit |-> "None"],
    [manufacturer |-> "Nordex", diameter |-> "30", power |-> "3000", radius |-> "None", rule |-> 18, name |-> "Nordex N30/3000", group0 |-> "Nordex N30/3000", manufacturer_code |-> "None", power2 |-> "None", powerOW |-> "None", powerDW |-> "None", powerMW |-> "None", powerKW |-> "None", diameter2 |-> "None", diameterDm |-> "None", swept_area |-> "None", known_unit |-> "None"],
    [manufacturer |-> "Nordex", diameter |-> "None", power |-> "None", radius |-> "None", rule |-> 45, name |-> "Nordex N30/3000", group0 |-> "Nordex N30/3000", manufacturer_code |-> "None", power2 |-> "None", powerOW |-> "None", powerDW |-> "None", powerMW |-> "None", powerKW |-> "None", diameter2 |-> "None", diameterDm |-> "None", swept_area |-> "None", known_unit |-> "None"],
    [manufacturer |-> "Nordex", diameter |-> "30", power |-> "3450", radius |-> "None", rule |-> 18, name |-> "Nordex N30/3450", group0 |-> "Nordex N30/3450", manufacturer_code |-> "None", power2 |-> "None", powerOW |-> "None", powerDW |-> "None", powerMW |-> "None", powerKW |-> "None", diameter2 |-> "None", diameterDm |-> "None", swept_area |-> "None", known_unit |-> "None"],
    [manufacturer |-> "Nordex", diameter |-> "None", power |-> "None", radius |-> "None", rule |-> 45, name |-> "Nordex N30/3450", group0 |-> "Nordex N30/3450", manufacturer_code |-> "None", power2 |-> "None", powerOW |-> "None", powerDW |-> "None", powerMW |-> "None", powerKW |-> "None", diameter2 |-> "None", diameterDm |-> "None", swept_area |-> "None", known_unit |-> "None"],
    [manufacturer |-> "Nordex", diameter |-> "82", power |-> "1500", radius |-> "None", rule |-> 18, name |-> "Nordex N82/1500", group0 |-> "Nordex N82/1500", manufacturer_code |-> "None", power2 |-> "None", powerOW |-> "None", powerDW |-> "None", powerMW |-> "None", powerKW |-> "None", diameter2 |-> "None", diameterDm |-> "None", swept_area |-> "None", known_unit |-> "None"],
    [manufacturer |-> "Nordex", diameter |-> "None", power |-> "None", radius |-> "None", rule |-> 45, name |-> "Nordex N82/1500", group0 |-> "Nordex N82/1500", manufacturer_code |-> "None", power2 |-> "None", powerOW |-> "None", powerDW |-> "None", powerMW |-> "None", powerKW |-> "None", diameter2 |-> "None", diameterDm |-> "None", swept_area |-> "None", known_unit |-> "None"],
    [manufacturer |-> "Nordex", diameter |-> "82", power |-> "2000", radius |-> "None", rule |-> 18, name |-> "Nordex N82/2000", group0 |-> "Nordex N82/2000", manufacturer_code |-> "None", power2 |-> "None", powerOW |-> "None", powerDW |-> "None", powerMW |-> "None", powerKW |-> "None", diameter2 |-> "None", diameterDm |-> "None", swept_area |-> "None", known_unit |-> "None"],
    [manufacturer |-> "Nordex", diameter |-> "None", power |-> "None", radius |-> "None", rule |-> 45, name |-> "Nordex N82/2000", group0 |-> "Nordex N82/2000", manufacturer_code |-> "None", power2 |-> "None", powerOW |-> "None", powerDW |-> "None", powerMW |-> "None", powerKW |-> "None", diameter2 |-> "None", diameterDm |-> "None", swept_area |-> "None", known_unit |-> "None"],
    [manufacturer |-> "Nordex", diameter |-> "82", power |-> "225", radius |-> "None", rule |-> 18, name |-> "Nordex N82/225", group0 |-> "Nordex N82/225", manufacturer_code |-> "None", power2 |-> "None", powerOW |-> "None", powerDW |-> "None", powerMW |-> "None", powerKW |-> "None", diameter2 |-> "None", diameterDm |-> "None", swept_area |-> "None", known_unit |-> "None"],
    [manufacturer |-> "Nordex", diameter |-> "None", power |-> "None", radius |-> "None", rule |-> 45, name |-> "Nordex N82/225", group0 |-> "Nordex N82/225", manufacturer_code |-> "None", power2 |-> "None", powerOW |-> "None", powerDW |-> "None", powerMW |-> "None", powerKW |-> "None", diameter2 |-> "None", diameterDm |-> "None", swept_area |-> "None", known_unit |-> "None"],
    [manufacturer |-> "Nordex", diameter |-> "82", power |-> "3000", radius |-> "None", rule |-> 18, name |-> "Nordex N82/3000", group0 |-> "Nordex N82/3000", manufacturer_code |-> "None", power2 |-> "None", powerOW |-> "None", powerDW |-> "None", powerMW |-> "None", powerKW |-> "None", diameter2 |-> "None", diameterDm |-> "None", swept_area |-> "None", known_unit |-> "None"],
    [manufacturer |-> "Nordex", diameter |-> "None", power |-> "None", radius |-> "None", rule |-> 45, name |-> "Nordex N82/3000", group0 |-> "Nordex N82/3000", manufacturer_code |-> "None", power2 |-> "None", powerOW |-> "None", powerDW |-> "None", powerMW |-> "None", powerKW |-> "None", diameter2 |-> "None", diameterDm |-> "None", swept_area |-> "None", known_unit |-> "None"],
    [manufacturer |-> "Nordex", diameter |-> "82", power |-> "3450", radius |-> "None", rule |-> 18, name |-> "Nordex N82/3450", group0 |-> "Nordex N82/3450", manufacturer_code |-> "None", power2 |-> "None", powerOW |-> "None", powerDW |-> "None", powerMW |-> "None", powerKW |-> "None", diameter2 |-> "None", diameterDm |-> "None", swept_area |-> "None", known_unit |-> "None"],
    [manufacturer |-> "Nordex", diameter |-> "None", power |-> "None", radius |-> "None", rule |-> 45, name |-> "Nordex N82/3450", group0 |-> "Nordex N82/3450", manufacturer_code |-> "None", power2 |-> "None", powerOW |-> "None", powerDW |-> "None", powerMW |-> "None", powerKW |-> "None", diameter2 |-> "None", diameterDm |-> "None", swept_area |-> "None", known_unit |-> "None"],
    [manufacturer |-> "Nordex", diameter |-> "90", power |-> "1500", radius |-> "None", rule |-> 18, name |-> "Nordex N90/1500", group0 |-> "Nordex N90/1500", manufacturer_code |-> "None", power2 |-> "None", powerOW |-> "None", powerDW |-> "None", powerMW |-> "None", powerKW |-> "None", diameter2 |-> "None", diameterDm |-> "None", swept_area |-> "None", known_unit |-> "None"],
    [manufacturer |-> "Nordex", diameter |-> "None", power |-> "None", radius |-> "None", rule |-> 45, name |-> "Nordex N90/1500", group0 |-> "Nordex N90/1500", manufacturer_code |-> "None", power2 |-> "None", powerOW |-> "None", powerDW |-> "None", powerMW |-> "None", powerKW |-> "None", diameter2 |-> "None", diameterDm |-> "None", swept_area |-> "None", known_unit |-> "None"],
    [manufacturer |-> "Nordex", diameter |-> "90", power |-> "2000", radius |-> "None", rule |-> 18, name |-> "Nordex N90/2000", group0 |-> "Nordex N90/2000", manufacturer_code |-> "None", power2 |-> "None", powerOW |-> "None", powerDW |-> "None", powerMW |-> "None", powerKW |-> "None", diameter2 |-> "None", diameterDm |-> "None", swept_area |-> "None", known_unit |-> "None"],
    [manufacturer |-> "Nordex", diameter |-> "None", power |-> "None", radius |-> "None", rule |-> 45, name |-> "Nordex N90/2000", group0 |-> "Nordex N90/2000", manufacturer_code |-> "None", power2 |-> "None", powerOW |-> "None", powerDW |-> "None", powerMW |-> "None", powerKW |-> "None", diameter2 |-> "None", diameterDm |-> "None", swept_area |-> "None", known_unit |-> "None"],
    [manufacturer |-> "Nordex", diameter |-> "90", power |-> "225", radius |-> "None", rule |-> 18, name |-> "Nordex N90/225", group0 |-> "Nordex N90/225", manufacturer_code |-> "None", power2 |-> "None", powerOW |-> "None", powerDW |-> "None", powerMW |-> "None", powerKW |-> "None", diameter2 |-> "None", diameterDm |-> "None", swept_area |-> "None", known_unit |-> "None"],
    [manufacturer |-> "Nordex", diameter |-> "None", power |-> "None", radius |-> "None", rule |-> 45, name |-> "Nordex N90/225", group0 |-> "Nordex N90/225", manufacturer_code |-> "None", power2 |-> "None", powerOW |-> "None", powerDW |-> "None", powerMW |-> "None", powerKW |-> "None", diameter2 |-> "None", diameterDm |-> "None", swept_area |-> "None", known_unit |-> "None"],
    [manufacturer |-> "Nordex", diameter |-> "90", power |-> "2500", radius |-> "None", rule |-> 18, name |-> "Nordex N90/2500", group0 |-> "Nordex N90/2500", manufacturer_code |-> "None", power2 |-> "None", powerOW |-> "None", powerDW |-> "None", powerMW |-> "None", powerKW |-> "None", diameter2 |-> "None", diameterDm |-> "None", swept_area |-> "None", known_unit |-> "None"],
    [manufacturer |-> "Nordex", diameter |-> "None", power |-> "None", radius |-> "None", rule |-> 45, name |-> "Nordex N90/2500", group0 |-> "Nordex N90/2500", manufacturer_code |-> "None", power2 |-> "None", powerOW |-> "None", powerDW |-> "None", powerMW |-> "None", powerKW |-> "None", diameter2 |-> "None", diameterDm |-> "None", swept_area |-> "None", known_unit |-> "None"],
    [manufacturer |-> "Nordex", diameter |-> "90", power |-> "3000", radius |-> "None", rule |-> 18, name |-> "Nordex N90/3000", group0 |-> "Nordex N90/3000", manufacturer_code |-> "None", power2 |-> "None", powerOW |-> "None", powerDW |-> "None", powerMW |-> "None", powerKW |-> "None", diameter2 |-> "None", diameterDm |-> "None", swept_area |-> "None", known_unit |-> "None"],
    [manufacturer |-> "Nordex", diameter |-> "None", power |-> "None", radius |-> "None", rule |-> 45, name |-> "Nordex N90/3000", group0 |-> "Nordex N90/3000", manufacturer_code |-> "None", power2 |-> "None", powerOW |-> "None", powerDW |-> "None", powerMW |-> "None", powerKW |-> "None", diameter2 |-> "None", diameterDm |-> "None", swept_area |-> "None", known_unit |-> "None"],
    [manufacturer |-> "Nordex", diameter |-> "90", power |-> "3450", radius |-> "None", rule |-> 18, name |-> "Nordex N90/3450", group0 |-> "Nordex N90/3450", manufacturer_code |-> "None", power2 |-> "None", powerOW |-> "None", powerDW |-> "None", powerMW |-> "None", powerKW |-> "None", diameter2 |-> "None", diameterDm |-> "None", swept_area |-> "None", known_unit |-> "None"],
    [manufacturer |-> "Nordex", diameter |-> "None", power |-> "None", radius |-> "None", rule |-> 45, name |-> "Nordex N90/3450", group0 |-> "Nordex N90/3450", manufacturer_code |-> "None", power2 |-> "None", powerOW |-> "None", powerDW |-> "None", powerMW |-> "None", powerKW |-> "None", diameter2 |-> "None", diameterDm |-> "None", swept_area |-> "None", known_unit |-> "None"],
    [manufacturer |-> "REF", diameter |-> "None", power |-> "None", radius |-> "None", rule |-> 17, name |-> "REF-0.2", group0 |-> "REF-0.2", manufacturer_code |-> "None", power2 |-> "None", powerOW |-> "None", powerDW |-> "None", powerMW |-> "0.2", powerKW |-> "None", diameter2 |-> "None", diameterDm |-> "None", swept_area |-> "None", known_unit |-> "None"],
    [manufacturer |-> "REF", diameter |-> "None", power |-> "None", radius |-> "None", rule |-> 17, name |-> "REF-1.5", group0 |-> "REF-1.5", manufacturer_code |-> "None", power2 |-> "None", powerOW |-> "None", powerDW |-> "None", powerMW |-> "1.5", powerKW |-> "None", diameter2 |-> "None", diameterDm |-> "None", swept_area |-> "None", known_unit |-> "None"],
    [manufacturer |-> "REF", diameter |-> "None", power |-> "None", radius |-> "None", rule |-> 17, name |-> "REF-2.0", group0 |-> "REF-2.0", manufacturer_code |-> "None", power2 |-> "None", powerOW |-> "None", powerDW |-> "None", powerMW |-> "2.0", powerKW |-> "None", diameter2 |-> "None", diameterDm |-> "None", swept_area |-> "None", known_unit |-> "None"],
    [manufacturer |-> "REF", diameter |-> "None", power |-> "None", radius |-> "None", rule |-> 17, name |-> "REF-3.0", group0 |-> "REF-3.0", manufacturer_code |-> "None", power2 |-> "None", powerOW |-> "None", powerDW |-> "None", powerMW |-> "3.0", powerKW |-> "None", diameter2 |-> "None", diameterDm |-> "None", swept_area |-> "None", known_unit |-> "None"],
    [manufacturer |-> "REF", diameter |-> "None", power |-> "None", radius |-> "None", rule |-> 17, name |-> "REF-3.5", group0 |-> "REF-3.5", manufacturer_code |-> "None", power2 |-> "None", powerOW |-> "None", powerDW |-> "None", powerMW |-> "3.5", powerKW |-> "None", diameter2 |-> "None", diameterDm |-> "None", swept_area |-> "None", known_unit |-> "None"],
    [manufacturer |-> "REpower", diameter |-> "150", power |-> "0.2", radius |-> "None", rule |-> 9, name |-> "REpower 0.2M150", group0 |-> "REpower 0.2M150", manufacturer_code |-> "None", power2 |-> "None", powerOW |-> "None", powerDW |-> "None", powerMW |-> "None", powerKW |-> "None", diameter2 |-> "None", diameterDm |-> "None", swept_area |-> "None", known_unit |-> "None"],
    [manufacturer |-> "REpower", diameter |-> "30", power |-> "0.2", radius |-> "None", rule |-> 9, name |-> "REpower 0.2M30", group0 |-> "REpower 0.2M30", manufacturer_code |-> "None", power2 |-> "None", powerOW |-> "None", powerDW |-> "None", powerMW |-> "None", powerKW |-> "None", diameter2 |-> "None", diameterDm |-> "None", swept_area |-> "None", known_unit |-> "None"],
    [manufacturer |-> "REpower", diameter |-> "82", power |-> "0.2", radius |-> "None", rule |-> 9, name |-> "REpower 0.2M82", group0 |-> "REpower 0.2M82", manufacturer_code |-> "None", power2 |-> "None", powerOW |-> "None", powerDW |-> "None", powerMW |-> "None", powerKW |-> "None", diameter2 |-> "None", diameterDm |-> "None", swept_area |-> "None", known_unit |-> "None"],
    [manufacturer |-> "REpower", diameter |-> "90", power |-> "0.2", radius |-> "None", rule |-> 9, name |-> "REpower 0.2M90", group0 |-> "REpower 0.2M90", manufacturer_code |-> "None", power2 |-> "None", powerOW |-> "None", powerDW |-> "None", powerMW |-> "None", powerKW |-> "None", diameter2 |-> "None", diameterDm |-> "None", swept_area |-> "None", known_unit |-> "None"],
    [manufacturer |-> "REpower", diameter |-> "150", power |-> "1.5", radius |-> "None", rule |-> 9, name |-> "REpower 1.5M150", group0 |-> "REpower 1.5M150", manufacturer_code |-> "None", power2 |-> "None", powerOW |-> "None", powerDW |-> "None", powerMW |-> "None", powerKW |-> "None", diameter2 |-> "None", diameterDm |-> "None", swept_area |-> "None", known_unit |-> "None"],
    [manufacturer |-> "REpower", diameter |-> "30", power |-> "1.5", radius |-> "None", rule |-> 9, name |-> "REpower 1.5M30", group0 |-> "REpower 1.5M30", manufacturer_code |-> "None", power2 |-> "None", powerOW |-> "None", powerDW |-> "None", powerMW |-> "None", powerKW |-> "None", diameter2 |-> "None", diameterDm |-> "None", swept_area |-> "None", known_unit |-> "None"],
    [manufacturer |-> "REpower", diameter |-> "82", power |-> "1.5", radius |-> "None", rule |-> 9, name |-> "REpower 1.5M82", group0 |-> "REpower 1.5M82", manufacturer_code |-> "None", power2 |-> "None", powerOW |-> "None", powerDW |-> "None", powerMW |-> "None", powerKW |-> "None", diameter2 |-> "None", diameterDm |-> "None", swept_area |-> "None", known_unit |-> "None"],
    [manufacturer |-> "REpower", diameter |-> "90", power |-> "1.5", radius |-> "None", rule |-> 9, name |-> "REpower 1.5M90", group0 |-> "REpower 1.5M90", manufacturer_code |-> "None", power2 |-> "None", powerOW |-> "None", powerDW |-> "None", powerMW |-> "None", powerKW |-> "None", diameter2 |-> "None", diameterDm |-> "None", swept_area |-> "None", known_unit |-> "None"],
    [manufacturer |-> "REpower", diameter |-> "150", power |-> "2.0", radius |-> "None", rule |-> 9, name |-> "REpower 2.0M150", group0 |-> "REpower 2.0M150", manufacturer_code |-> "None", power2 |-> "None", powerOW |-> "None", powerDW |-> "None", powerMW |-> "None", powerKW |-> "None", diameter2 |-> "None", diameterDm |-> "None", swept_area |-> "None", known_unit |-> "None"],
    [manufacturer |-> "REpower", diameter |-> "30", power |-> "2.0", radius |-> "None", rule |-> 9, name |-> "REpower 2.0M30", group0 |-> "REpower 2.0M30", manufacturer_code |-> "None", power2 |-> "None", powerOW |-> "None", powerDW |-> "None", powerMW |-> "None", powerKW |-> "None", diameter2 |-> "None", diameterDm |-> "None", swept_area |-> "None", known_unit |-> "None"],
    [manufacturer |-> "REpower", diameter |-> "82", power |-> "2.0", radius |-> "None", rule |-> 9, name |-> "REpower 2.0M82", group0 |-> "REpower 2.0M82", manufacturer_code |-> "None", power2 |-> "None", powerOW |-> "None", powerDW |-> "None", powerMW |-> "None", powerKW |-> "None", diameter2 |-> "None", diameterDm |-> "None", swept_area |-> "None", known_unit |-> "None"],
    [manufacturer |-> "REpower", diameter |-> "90", power |-> "2.0", radius |-> "None", rule |-> 9, name |-> "REpower 2.0M90", group0 |-> "REpower 2.0M90", manufacturer_code |-> "None", power2 |-> "None", powerOW |-> "None", powerDW |-> "None", powerMW |-> "None", powerKW |-> "None", diameter2 |-> "None", diameterDm |-> "None", swept_area |-> "None", known_unit |-> "None"],
    [manufacturer |-> "REpower", diameter |-> "150", power |-> "3.0", radius |-> "None", rule |-> 9, name |-> "REpower 3.0M150", group0 |-> "REpower 3.0M150", manufacturer_code |-> "None", power2 |-> "None", powerOW |-> "None", powerDW |-> "None", powerMW |-> "None", powerKW |-> "None", diameter2 |-> "None", diameterDm |-> "None", swept_area |-> "None", known_unit |-> "None"],
    [manufacturer |-> "REpower", diameter |-> "30", power |-> "3.0", radius |-> "None", rule |-> 9, name |-> "REpower 3.0M30", group0 |-> "REpower 3.0M30", manufacturer_code |-> "None", power2 |-> "None", powerOW |-> "None", powerDW |-> "None", powerMW |-> "None", powerKW |-> "None", diameter2 |-> "None", diameterDm |-> "None", swept_area |-> "None", known_unit |-> "None"],
    [manufacturer |-> "REpower", diameter |-> "82", power |-> "3.0", radius |-> "None", rule |-> 9, name |-> "REpower 3.0M82", group0 |-> "REpower 3.0M82", manufacturer_code |-> "None", power2 |-> "None", powerOW |-> "None", powerDW |-> "None", powerMW |-> "None", powerKW |-> "None", diameter2 |-> "None", diameterDm |-> "None", swept_area |-> "None", known_unit |-> "None"],
    [manufacturer |-> "REpower", diameter |-> "90", power |-> "3.0", radius |-> "None", rule |-> 9, name |-> "REpower 3.0M90", group0 |-> "REpower 3.0M90", manufacturer_code |-> "None", power2 |-> "None", powerOW |-> "None", powerDW |-> "None", powerMW |-> "None", powerKW |-> "None", diameter2 |-> "None", diameterDm |-> "None", swept_area |-> "None", known_unit |-> "None"],
    [manufacturer |-> "REpower", diameter |-> "150", power |-> "3.5", radius |-> "None", rule |-> 9, name |-> "REpower 3.5M150", group0 |-> "REpower 3.5M150", manufacturer_code |-> "None", power2 |-> "None", powerOW |-> "None", powerDW |-> "None", powerMW |-> "None", powerKW |-> "None", diameter2 |-> "None", diameterDm |-> "None", swept_area |-> "None", known_unit |-> "None"],
    [manufacturer |-> "REpower", diameter |-> "30", power |-> "3.5", radius |-> "None", rule |-> 9, name |-> "REpower 3.5M30", group0 |-> "REpower 3.5M30", manufacturer_code |-> "None", power2 |-> "None", powerOW |-> "None", powerDW |-> "None", powerMW |-> "None", powerKW |-> "None", diameter2 |-> "None", diameterDm |-> "None", swept_area |-> "None", known_unit |-> "None"],
    [manufacturer |-> "REpower", diameter |-> "82", power |-> "3.5", radius |-> "None", rule |-> 9, name |-> "REpower 3.5M82", group0 |-> "REpower 3.5M82", manufacturer_code |-> "None", power2 |-> "None", powerOW |-> "None", powerDW |-> "None", powerMW |-> "None", powerKW |-> "None", diameter2 |-> "None", diameterDm |-> "None", swept_area |-> "None", known_unit |-> "None"],
    [manufacturer |-> "REpower", diameter |-> "90", power |-> "3.5", radius |-> "None", rule |-> 9, name |-> "REpower 3.5M90", group0 |-> "REpower 3.5M90", manufacturer_code |-> "None", power2 |-> "None", powerOW |-> "None", powerDW |-> "None", powerMW |-> "None", powerKW |-> "None", diameter2 |-> "None", diameterDm |-> "None", swept_area |-> "None", known_unit |-> "None"],
    [manufacturer |-> "Senvion", diameter |-> "150", power |-> "0.2", radius |-> "None", rule |-> 9, name |-> "Senvion 0.2M150", group0 |-> "Senvion 0.2M150", manufacturer_code |-> "None", power2 |-> "None", powerOW |-> "None", powerDW |-> "None", powerMW |-> "None", powerKW |-> "None", diameter2 |-> "None", diameterDm |-> "None", swept_area |-> "None", known_unit |-> "None"],
    [manufacturer |-> "Senvion", diameter |-> "30", power |-> "0.2", radius |-> "None", rule |-> 9, name |-> "Senvion 0.2M30", group0 |-> "Senvion 0.2M30", manufacturer_code |-> "None", power2 |-> "None", powerOW |-> "None", powerDW |-> "None", powerMW |-> "None", powerKW |-> "None", diameter2 |-> "None", diameterDm |-> "None", swept_area |-> "None", known_unit |-> "None"],
    [manufacturer |-> "Senvion", diameter |-> "82", power |-> "0.2", radius |-> "None", rule |-> 9, name |-> "Senvion 0.2M82", group0 |-> "Senvion 0.2M82", manufacturer_code |-> "None", power2 |-> "None", powerOW |-> "None", powerDW |-> "None", powerMW |-> "None", powerKW |-> "None", diameter2 |-> "None", diameterDm |-> "None", swept_area |-> "None", known_unit |-> "None"],
    [manufacturer |-> "Senvion", diameter |-> "90", power |-> "0.2", radius |-> "None", rule |-> 9, name |-> "Senvion 0.2M90", group0 |-> "Senvion 0.2M90", manufacturer_code |-> "None", power2 |-> "None", powerOW |-> "None", powerDW |-> "None", powerMW |-> "None", powerKW |-> "None", diameter2 |-> "None", diameterDm |-> "None", swept_area |-> "None", known_unit |-> "None"],
    [manufacturer |-> "Senvion", diameter |-> "150", power |-> "1.5", radius |-> "None", rule |-> 9, name |-> "Senvion 1.5M150", group0 |-> "Senvion 1.5M150", manufacturer_code |-> "None", power2 |-> "None", powerOW |-> "None", powerDW |-> "None", powerMW |-> "None", powerKW |-> "None", diameter2 |-> "None", diameterDm |-> "None", swept_area |-> "None", known_unit |-> "None"],
    [manufacturer |-> "Senvion", diameter |-> "30", power |-> "1.5", radius |-> "None", rule |-> 9, name |-> "Senvion 1.5M30", group0 |-> "Senvion 1.5M30", manufacturer_code |-> "None", power2 |-> "None", powerOW |-> "None", powerDW |-> "None", powerMW |-> "None", powerKW |-> "None", diameter2 |-> "None", diameterDm |-> "None", swept_area |-> "None", known_unit |-> "None"],
    [manufacturer |-> "Senvion", diameter |-> "82", power |-> "1.5", radius |-> "None", rule |-> 9, name |-> "Senvion 1.5M82", group0 |-> "Senvion 1.5M82", manufacturer_code |-> "None", power2 |-> "None", powerOW |-> "None", powerDW |-> "None", powerMW |-> "None", powerKW |-> "None", diameter2 |-> "None", diameterDm |-> "None", swept_area |-> "None", known_unit |-> "None"],
    [manufacturer |-> "Senvion", diameter |-> "90", power |-> "1.5", radius |-> "None", rule |-> 9, name |-> "Senvion 1.5M90", group0 |-> "Senvion 1.5M90", manufacturer_code |-> "None", power2 |-> "None", powerOW |-> "None", powerDW |-> "None", powerMW |-> "None", powerKW |-> "None", diameter2 |-> "None", diameterDm |-> "None", swept_area |-> "None", known_unit |-> "None"],
    [manufacturer |-> "Senvion", diameter |-> "150", power |-> "2.0", radius |-> "None", rule |-> 9, name |-> "Senvion 2.0M150", group0 |-> "Senvion 2.0M150", manufacturer_code |-> "None", power2 |-> "None", powerOW |-> "None", powerDW |-> "None", powerMW |-> "None", powerKW |-> "None", diameter2 |-> "None", diameterDm |-> "None", swept_area |-> "None", known_unit |-> "None"],
    [manufacturer |-> "Senvion", diameter |-> "30", power |-> "2.0", radius |-> "None", rule |-> 9, name |-> "Senvion 2.0M30", group0 |-> "Senvion 2.0M30", manufacturer_code |-> "None", power2 |-> "None", powerOW |-> "None", powerDW |-> "None", powerMW |-> "None", powerKW |-> "None", diameter2 |-> "None", diameterDm |-> "None", swept_area |-> "None", known_unit |-> "None"],
    [manufacturer |-> "Senvion", diameter |-> "82", power |-> "2.0", radius |-> "None", rule |-> 9, name |-> "Senvion 2.0M82", group0 |-> "Senvion 2.0M82", manufacturer_code |-> "None", power2 |-> "None", powerOW |-> "None", powerDW |-> "None", powerMW |-> "None", powerKW |-> "None", diameter2 |-> "None", diameterDm |-> "None", swept_area |-> "None", known_unit |-> "None"],
    [manufacturer |-> "Senvion", diameter |-> "90", power |-> "2.0", radius |-> "None", rule |-> 9, name |-> "Senvion 2.0M90", group0 |-> "Senvion 2.0M90", manufacturer_code |-> "None", power2 |-> "None", powerOW |-> "None", powerDW |-> "None", powerMW |-> "None", powerKW |-> "None", diameter2 |-> "None", diameterDm |-> "None", swept_area |-> "None", known_unit |-> "None"],
    [manufacturer |-> "Senvion", diameter |-> "150", power |-> "3.0", radius |-> "None", rule |-> 9, name |-> "Senvion 3.0M150", group0 |-> "Senvion 3.0M150", manufacturer_code |-> "None", power2 |-> "None", powerOW |-> "None", powerDW |-> "None", powerMW |-> "None", powerKW |-> "None", diameter2 |-> "None", diameterDm |-> "None", swept_area |-> "None", known_unit |-> "None"],
    [manufacturer |-> "Senvion", diameter |-> "30", power |-> "3.0", radius |-> "None", rule |-> 9, name |-> "Senvion 3.0M30", group0 |-> "Senvion 3.0M30", manufacturer_code |-> "None", power2 |-> "None", powerOW |-> "None", powerDW |-> "None", powerMW |-> "None", powerKW |-> "None", diameter2 |-> "None", diameterDm |-> "None", swept_area |-> "None", known_unit |-> "None"],
    [manufacturer |-> "Senvion", diameter |-> "82", power |-> "3.0", radius |-> "None", rule |-> 9, name |-> "Senvion 3.0M82", group0 |-> "Senvion 3.0M82", manufacturer_code |-> "None", power2 |-> "None", powerOW |-> "None", powerDW |-> "None", powerMW |-> "None", powerKW |-> "None", diameter2 |-> "None", diameterDm |-> "None", swept_area |-> "None", known_unit |-> "None"],
    [manufacturer |-> "Senvion", diameter |-> "90", power |-> "3.0", radius |-> "None", rule |-> 9, name |-> "Senvion 3.0M90", group0 |-> "Senvion 3.0M90", manufacturer_code |-> "None", power2 |-> "None", powerOW |-> "None", powerDW |-> "None", powerMW |-> "None", powerKW |-> "None", diameter2 |-> "None", diameterDm |-> "None", swept_area |-> "None", known_unit |-> "None"],
    [manufacturer |-> "Senvion", diameter |-> "150", power |-> "3.5", radius |-> "None", rule |-> 9, name |-> "Senvion 3.5M150", group0 |-> "Senvion 3.5M150", manufacturer_code |-> "None", power2 |-> "None", powerOW |-> "None", powerDW |-> "None", powerMW |-> "None", powerKW |-> "None", diameter2 |-> "None", diameterDm |-> "None", swept_area |-> "None", known_unit |-> "None"],
    [manufacturer |-> "Senvion", diameter |-> "30", power |-> "3.5", radius |-> "None", rule |-> 9, name |-> "Senvion 3.5M30", group0 |-> "Senvion 3.5M30", manufacturer_code |-> "None", power2 |-> "None", powerOW |-> "None", powerDW |-> "None", powerMW |-> "None", powerKW |-> "None", diameter2 |-> "None", diameterDm |-> "None", swept_area |-> "None", known_unit |-> "None"],
    [manufacturer |-> "Senvion", diameter |-> "82", power |-> "3.5", radius |-> "None", rule |-> 9, name |-> "Senvion 3.5M82", group0 |-> "Senvion 3.5M82", manufacturer_code |-> "None", power2 |-> "None", powerOW |-> "None", powerDW |-> "None", powerMW |-> "None", powerKW |-> "None", diameter2 |-> "None", diameterDm |-> "None", swept_area |-> "None", known_unit |-> "None"],
    [manufacturer |-> "Senvion", diameter |-> "90", power |-> "3.5", radius |-> "None", rule |-> 9, name |-> "Senvion 3.5M90", group0 |-> "Senvion 3.5M90", manufacturer_code |-> "None", power2 |-> "None", powerOW |-> "None", powerDW |-> "None", powerMW |-> "None", powerKW |-> "None", diameter2 |-> "None", diameterDm |-> "None", swept_area |-> "None", known_unit |-> "None"],
    [manufacturer |-> "Senvion", diameter |-> "152", power |-> "6.X", radius |-> "None", rule |-> 9, name |-> "Senvion 6.XM152", group0 |-> "Senvion 6.XM152", manufacturer_code |-> "None", power2 |-> "None", powerOW |-> "None", powerDW |-> "None", powerMW |-> "None", powerKW |-> "None", diameter2 |-> "None", diameterDm |-> "None", swept_area |-> "None", known_unit |-> "None"],
    [manufacturer |-> "Siemens Gamesa", diameter |-> "150", power |-> "0.2", radius |-> "None", rule |-> 7, name |-> "Siemens Gamesa SG-0.2-150", group0 |-> "Siemens Gamesa SG-0.2-150", manufacturer_code |-> "None", power2 |-> "None", powerOW |-> "None", powerDW |-> "None", powerMW |-> "None", powerKW |-> "None", diameter2 |-> "None", diameterDm |-> "None", swept_area |-> "None", known_unit |-> "None"],
    [manufacturer |-> "Siemens Gamesa", diameter |-> "30", power |-> "0.2", radius |-> "None", rule |-> 7, name |-> "Siemens Gamesa SG-0.2-30", group0 |-> "Siemens Gamesa SG-0.2-30", manufacturer_code |-> "None", power2 |-> "None", powerOW |-> "None", powerDW |-> "None", powerMW |-> "None", powerKW |-> "None", diameter2 |-> "None", diameterDm |-> "None", swept_area |-> "None", known_unit |-> "None"],
    [manufacturer |-> "Siemens Gamesa", diameter |-> "82", power |-> "0.2", radius |-> "None", rule |-> 7, name |-> "Siemens Gamesa SG-0.2-82", group0 |-> "Siemens Gamesa SG-0.2-82", manufacturer_code |-> "None", power2 |-> "None", powerOW |-> "None", powerDW |-> "None", powerMW |-> "None", powerKW |-> "None", diameter2 |-> "None", diameterDm |-> "None", swept_area |-> "None", known_unit |-> "None"],
    [manufacturer |-> "Siemens Gamesa", diameter |-> "90", power |-> "0.2", radius |-> "None", rule |-> 7, name |-> "Siemens Gamesa SG-0.2-90", group0 |-> "Siemens Gamesa SG-0.2-90", manufacturer_code |-> "None", power2 |-> "None", powerOW |-> "None", powerDW |-> "None", powerMW |-> "None", powerKW |-> "None", diameter2 |-> "None", diameterDm |-> "None", swept_area |-> "None", known_unit |-> "None"],
    [manufacturer |-> "Siemens Gamesa", diameter |-> "150", power |-> "1.5", radius |-> "None", rule |-> 7, name |-> "Siemens Gamesa SG-1.5-150", group0 |-> "Siemens Gamesa SG-1.5-150", manufacturer_code |-> "None", power2 |-> "None", powerOW |-> "None", powerDW |-> "None", powerMW |-> "None", powerKW |-> "None", diameter2 |-> "None", diameterDm |-> "None", swept_area |-> "None", known_unit |-> "None"],
    [manufacturer |-> "Siemens Gamesa", diameter |-> "30", power |-> "1.5", radius |-> "None", rule |-> 7, name |-> "Siemens Gamesa SG-1.5-30", group0 |-> "Siemens Gamesa SG-1.5-30", manufacturer_code |-> "None", power2 |-> "None", powerOW |-> "None", powerDW |-> "None", powerMW |-> "None", powerKW |-> "None", diameter2 |-> "None", diameterDm |-> "None", swept_area |-> "None", known_unit |-> "None"],
    [manufacturer |-> "Siemens Gamesa", diameter |-> "82", power |-> "1.5", radius |-> "None", rule |-> 7, name |-> "Siemens Gamesa SG-1.5-82", group0 |-> "Siemens Gamesa SG-1.5-82", manufacturer_code |-> "None", power2 |-> "None", powerOW |-> "None", powerDW |-> "None", powerMW |-> "None", powerKW |-> "None", diameter2 |-> "None", diameterDm |-> "None", swept_area |-> "None", known_unit |-> "None"],
    [manufacturer |-> "Siemens Gamesa", diameter |-> "90", power |-> "1.5", radius |-> "None", rule |-> 7, name |-> "Siemens Gamesa SG-1.5-90", group0 |-> "Siemens Gamesa SG-1.5-90", manufacturer_code |-> "None", power2 |-> "None", powerOW |-> "None", powerDW |-> "None", powerMW |-> "None", powerKW |-> "None", diameter2 |-> "None", diameterDm |-> "None", swept_area |-> "None", known_unit |-> "None"],
    [manufacturer |-> "Siemens Gamesa", diameter |-> "150", power |-> "2.0", radius |-> "None", rule |-> 7, name |-> "Siemens Gamesa SG-2.0-150", group0 |-> "Siemens Gamesa SG-2.0-150", manufacturer_code |-> "None", power2 |-> "None", powerOW |-> "None", powerDW |-> "None", powerMW |-> "None", powerKW |-> "None", diameter2 |-> "None", diameterDm |-> "None", swept_area |-> "None", known_unit |-> "None"],
    [manufacturer |-> "Siemens Gamesa", diameter |-> "30", power |-> "2.0", radius |-> "None", rule |-> 7, name |-> "Siemens Gamesa SG-2.0-30", group0 |-> "Siemens Gamesa SG-2.0-30", manufacturer_code |-> "None", power2 |-> "None", powerOW |-> "None", powerDW |-> "None", powerMW |-> "None", powerKW |-> "None", diameter2 |-> "None", diameterDm |-> "None", swept_area |-> "None", known_unit |-> "None"],
    [manufacturer |-> "Siemens Gamesa", diameter |-> "82", power |-> "2.0", radius |-> "None", rule |-> 7, name |-> "Siemens Gamesa SG-2.0-82", group0 |-> "Siemens Gamesa SG-2.0-82", manufacturer_code |-> "None", power2 |-> "None", powerOW |-> "None", powerDW |-> "None", powerMW |-> "None", powerKW |-> "None", diameter2 |-> "None", diameterDm |-> "None", swept_area |-> "None", known_unit |-> "None"],
    [manufacturer |-> "Siemens Gamesa", diameter |-> "90", power |-> "2.0", radius |-> "None", rule |-> 7, name |-> "Siemens Gamesa SG-2.0-90", group0 |-> "Siemens Gamesa SG-2.0-90", manufacturer_code |-> "None", power2 |-> "None", powerOW |-> "None", powerDW |-> "None", powerMW |-> "None", powerKW |-> "None", diameter2 |-> "None", diameterDm |-> "None", swept_area |-> "None", known_unit |-> "None"],
    [manufacturer |-> "Siemens Gamesa", diameter |-> "150", power |-> "3.0", radius |-> "None", rule |-> 7, name |-> "Siemens Gamesa SG-3.0-150", group0 |-> "Siemens Gamesa SG-3.0-150", manufacturer_code |-> "None", power2 |-> "None", powerOW |-> "None", powerDW |-> "None", powerMW |-> "None", powerKW |-> "None", diameter2 |-> "None", diameterDm |-> "None", swept_area |-> "None", known_unit |-> "None"],
    [manufacturer |-> "Siemens Gamesa", diameter |-> "30", power |-> "3.0", radius |-> "None", rule |-> 7, name |-> "Siemens Gamesa SG-3.0-30", group0 |-> "Siemens Gamesa SG-3.0-30", manufacturer_code |-> "None", power2 |-> "None", powerOW |-> "None", powerDW |-> "None", powerMW |-> "None", powerKW |-> "None", diameter2 |-> "None", diameterDm |-> "None", swept_area |-> "None", known_unit |-> "None"],
    [manufacturer |-> "Siemens Gamesa", diameter |-> "82", power |-> "3.0", radius |-> "None", rule |-> 7, name |-> "Siemens Gamesa SG-3.0-82", group0 |-> "Siemens Gamesa SG-3.0-82", manufacturer_code |-> "None", power2 |-> "None", powerOW |-> "None", powerDW |-> "None", powerMW |-> "None", powerKW |-> "None", diameter2 |-> "None", diameterDm |-> "None", swept_area |-> "None", known_unit |-> "None"],
    [manufacturer |-> "Siemens Gamesa", diameter |-> "90", power |-> "3.0", radius |-> "None", rule |-> 7, name |-> "Siemens Gamesa SG-3.0-90", group0 |-> "Siemens Gamesa SG-3.0-90", manufacturer_code |-> "None", power2 |-> "None", powerOW |-> "None", powerDW |-> "None", powerMW |-> "None", powerKW |-> "None", diameter2 |-> "None", diameterDm |-> "None", swept_area |-> "None", known_unit |-> "None"],
    [manufacturer |-> "Siemens Gamesa", diameter |-> "150", power |-> "3.5", radius |-> "None", rule |-> 7, name |-> "Siemens Gamesa SG-3.5-150", group0 |-> "Siemens Gamesa SG-3.5-150", manufacturer_code |-> "None", power2 |-> "None", powerOW |-> "None", powerDW |-> "None", powerMW |-> "None", powerKW |-> "None", diameter2 |-> "None", diameterDm |-> "None", swept_area |-> "None", known_unit |-> "None"],
    [manufacturer |-> "Siemens Gamesa", diameter |-> "30", power |-> "3.5", radius |-> "None", rule |-> 7, name |-> "Siemens Gamesa SG-3.5-30", group0 |-> "Siemens Gamesa SG-3.5-30", manufacturer_code |-> "None", power2 |-> "None", powerOW |-> "None", powerDW |-> "None", powerMW |-> "None", powerKW |-> "None", diameter2 |-> "None", diameterDm |-> "None", swept_area |-> "None", known_unit |-> "None"],
    [manufacturer |-> "Siemens Gamesa", diameter |-> "82", power |-> "3.5", radius |-> "None", rule |-> 7, name |-> "Siemens Gamesa SG-3.5-82", group0 |-> "Siemens Gamesa SG-3.5-82", manufacturer_code |-> "None", power2 |-> "None", powerOW |-> "None", powerDW |-> "None", powerMW |-> "None", powerKW |-> "None", diameter2 |-> "None", diameterDm |-> "None", swept_area |-> "None", known_unit |-> "None"],
    [manufacturer |-> "Siemens Gamesa", diameter |-> "90", power |-> "3.5", radius |-> "None", rule |-> 7, name |-> "Siemens Gamesa SG-3.5-90", group0 |-> "Siemens Gamesa SG-3.5-90", manufacturer_code |-> "None", power2 |-> "None", powerOW |-> "None", powerDW |-> "None", powerMW |-> "None", powerKW |-> "None", diameter2 |-> "None", diameterDm |-> "None", swept_area |-> "None", known_unit |-> "None"],
    [manufacturer |-> "Siemens", diameter |-> "150", power |-> "0.2", radius |-> "None", rule |-> 7, name |-> "Siemens SWT-0.2-150", group0 |-> "Siemens SWT-0.2-150", manufacturer_code |-> "None", power2 |-> "None", powerOW |-> "None", powerDW |-> "None", powerMW |-> "None", powerKW |-> "None", diameter2 |-> "None", diameterDm |-> "None", swept_area |-> "None", known_unit |-> "None"],
    [manufacturer |-> "Siemens", diameter |-> "None", power |-> "None", radius |-> "None", rule |-> 45, name |-> "Siemens SWT-0.2-150", group0 |-> "Siemens SWT-0.2", manufacturer_code |-> "None", power2 |-> "None", powerOW |-> "None", powerDW |-> "None", powerMW |-> "None", powerKW |-> "None", diameter2 |-> "None", diameterDm |-> "None", swept_area |-> "None", known_unit |-> "None"],
    [manufacturer |-> "Siemens", diameter |-> "30", power |-> "0.2", radius |-> "None", rule |-> 7, name |-> "Siemens SWT-0.2-30", group0 |-> "Siemens SWT-0.2-30", manufacturer_code |-> "None", power2 |-> "None", powerOW |-> "None", powerDW |-> "None", powerMW |-> "None", powerKW |-> "None", diameter2 |-> "None", diameterDm |-> "None", swept_area |-> "None", known_unit |-> "None"],
    [manufacturer |-> "Siemens", diameter |-> "None", power |-> "None", radius |-> "None", rule |-> 45, name |-> "Siemens SWT-0.2-30", group0 |-> "Siemens SWT-0.2", manufacturer_code |-> "None", power2 |-> "None", powerOW |-> "None", powerDW |-> "None", powerMW |-> "None", powerKW |-> "None", diameter2 |-> "None", diameterDm |-> "None", swept_area |-> "None", known_unit |-> "None"],
    [manufacturer |-> "Siemens", diameter |-> "82", power |-> "0.2", radius |-> "None", rule |-> 7, name |-> "Siemens SWT-0.2-82", group0 |-> "Siemens SWT-0.2-82", manufacturer_code |-> "None", power2 |-> "None", powerOW |-> "None", powerDW |-> "None", powerMW |-> "None", powerKW |-> "None", diameter2 |-> "None", diameterDm |-> "None", swept_area |-> "None", known_unit |-> "None"],
    [manufacturer |-> "Siemens", diameter |-> "None", power |-> "None", radius |-> "None", rule |-> 45, name |-> "Siemens SWT-0.2-82", group0 |-> "Siemens SWT-0.2", manufacturer_code |-> "None", power2 |-> "None", powerOW |-> "None", powerDW |-> "None", powerMW |-> "None", powerKW |-> "None", diameter2 |-> "None", diameterDm |-> "None", swept_area |-> "None", known_unit |-> "None"],
    [manufacturer |-> "Siemens", diameter |-> "90", power |-> "0.2", radius |-> "None", rule |-> 7, name |-> "Siemens SWT-0.2-90", group0 |-> "Siemens SWT-0.2-90", manufacturer_code |-> "None", power2 |-> "None", powerOW |-> "None", powerDW |-> "None", powerMW |-> "None", powerKW |-> "None", diameter2 |-> "None", diameterDm |-> "None", swept_area |-> "None", known_unit |-> "None"],
    [manufacturer |-> "Siemens", diameter |-> "None", power |-> "None", radius |-> "None", rule |-> 45, name |-> "Siemens SWT-0.2-90", group0 |-> "Siemens SWT-0.2", manufacturer_code |-> "None", power2 |-> "None", powerOW |-> "None", powerDW |-> "None", powerMW |-> "None", powerKW |-> "None", diameter2 |-> "None", diameterDm |-> "None", swept_area |-> "None", known_unit |-> "None"],
    [manufacturer |-> "Siemens", diameter |-> "150", power |-> "1.5", radius |-> "None", rule |-> 7, name |-> "Siemens SWT-1.5-150", group0 |-> "Siemens SWT-1.5-150", manufacturer_code |-> "None", power2 |-> "None", powerOW |-> "None", powerDW |-> "None", powerMW |-> "None", powerKW |-> "None", diameter2 |-> "None", diameterDm |-> "None", swept_area |-> "None", known_unit |-> "None"],
    [manufacturer |-> "Siemens", diameter |-> "None", power |-> "None", radius |-> "None", rule |-> 45, name |-> "Siemens SWT-1.5-150", group0 |-> "Siemens SWT-1.5", manufacturer_code |-> "None", power2 |-> "None", powerOW |-> "None", powerDW |-> "None", powerMW |-> "None", powerKW |-> "None", diameter2 |-> "None", diameterDm |-> "None", swept_area |-> "None", known_unit |-> "None"],
    [manufacturer |-> "Siemens", diameter |-> "30", power |-> "1.5", radius |-> "None", rule |-> 7, name |-> "Siemens SWT-1.5-30", group0 |-> "Siemens SWT-1.5-30", manufacturer_code |-> "None", power2 |-> "None", powerOW |-> "None", powerDW |-> "None", powerMW |-> "None", powerKW |-> "None", diameter2 |-> "None", diameterDm |-> "None", swept_area |-> "None", known_unit |-> "None"],
    [manufacturer |-> "Siemens", diameter |-> "None", power |-> "None", radius |-> "None", rule |-> 45, name |-> "Siemens SWT-1.5-30", group0 |-> "Siemens SWT-1.5", manufacturer_code |-> "None", power2 |-> "None", powerOW |-> "None", powerDW |-> "None", powerMW |-> "None", powerKW |-> "None", diameter2 |-> "None", diameterDm |-> "None", swept_area |-> "None", known_unit |-> "None"],
    [manufacturer |-> "Siemens", diameter |-> "82", power |-> "1.5", radius |-> "None", rule |-> 7, name |-> "Siemens SWT-1.5-82", group0 |-> "Siemens SWT-1.5-82", manufacturer_code |-> "None", power2 |-> "None", powerOW |-> "None", powerDW |-> "None", powerMW |-> "None", powerKW |-> "None", diameter2 |-> "None", diameterDm |-> "None", swept_area |-> "None", known_unit |-> "None"],
    [manufacturer |-> "Siemens", diameter |-> "None", power |-> "None", radius |-> "None", rule |-> 45, name |-> "Siemens SWT-1.5-82", group0 |-> "Siemens SWT-1.5", manufacturer_code |-> "None", power2 |-> "None", powerOW |-> "None", powerDW |-> "None", powerMW |-> "None", powerKW |-> "None", diameter2 |-> "None", diameterDm |-> "None", swept_area |-> "None", known_unit |-> "None"],
    [manufacturer |-> "Siemens", diameter |-> "90", power |-> "1.5", radius |-> "None", rule |-> 7, name |-> "Siemens SWT-1.5-90", group0 |-> "Siemens SWT-1.5-90", manufacturer_code |-> "None", power2 |-> "None", powerOW |-> "None", powerDW |-> "None", powerMW |-> "None", powerKW |-> "None", diameter2 |-> "None", diameterDm |-> "None", swept_area |-> "None", known_unit |-> "None"],
    [manufacturer |-> "Siemens", diameter |-> "None", power |-> "None", radius |-> "None", rule |-> 45, name |-> "Siemens SWT-1.5-90", group0 |-> "Siemens SWT-1.5", manufacturer_code |-> "None", power2 |-> "None", powerOW |-> "None", powerDW |-> "None", powerMW |-> "None", powerKW |-> "None", diameter2 |-> "None", diameterDm |-> "None", swept_area |-> "None", known_unit |-> "None"],
    [manufacturer |-> "Siemens", diameter |-> "150", power |-> "2.0", radius |-> "None", rule |-> 7, name |-> "Siemens SWT-2.0-150", group0 |-> "Siemens SWT-2.0-150", manufacturer_code |-> "None", power2 |-> "None", powerOW |-> "None", powerDW |-> "None", powerMW |-> "None", powerKW |-> "None", diameter2 |-> "None", diameterDm |-> "None", swept_area |-> "None", known_unit |-> "None"],
    [manufacturer |-> "Siemens", diameter |-> "None", power |-> "None", radius |-> "None", rule |-> 45, name |-> "Siemens SWT-2.0-150", group0 |-> "Siemens SWT-2.0", manufacturer_code |-> "None", power2 |-> "None", powerOW |-> "None", powerDW |-> "None", powerMW |-> "None", powerKW |-> "None", diameter2 |-> "None", diameterDm |-> "None", swept_area |-> "None", known_unit |-> "None"],
    [manufacturer |-> "Siemens", diameter |-> "30", power |-> "2.0", radius |-> "None", rule |-> 7, name |-> "Siemens SWT-2.0-30", group0 |-> "Siemens SWT-2.0-30", manufacturer_code |-> "None", power2 |-> "None", powerOW |-> "None", powerDW |-> "None", powerMW |-> "None", powerKW |-> "None", diameter2 |-> "None", diameterDm |-> "None", swept_area |-> "None", known_unit |-> "None"],
    [manufacturer |-> "Siemens", diameter |-> "None", power |-> "None", radius |-> "None", rule |-> 45, name |-> "Siemens SWT-2.0-30", group0 |-> "Siemens SWT-2.0", manufacturer_code |-> "None", power2 |-> "None", powerOW |-> "None", powerDW |-> "None", powerMW |-> "None", powerKW |-> "None", diameter2 |-> "None", diameterDm |-> "None", swept_area |-> "None", known_unit |-> "None"],
    [manufacturer |-> "Siemens", diameter |-> "82", power |-> "2.0", radius |-> "None", rule |-> 7, name |-> "Siemens SWT-2.0-82", group0 |-> "Siemens SWT-2.0-82", manufacturer_code |-> "None", power2 |-> "None", powerOW |-> "None", powerDW |-> "None", powerMW |-> "None", powerKW |-> "None", diameter2 |-> "None", diameterDm |-> "None", swept_area |-> "None", known_unit |-> "None"],
    [manufacturer |-> "Siemens", diameter |-> "None", power |-> "None", radius |-> "None", rule |-> 45, name |-> "Siemens SWT-2.0-82", group0 |-> "Siemens SWT-2.0", manufacturer_code |-> "None", power2 |-> "None", powerOW |-> "None", powerDW |-> "None", powerMW |-> "None", powerKW |-> "None", diameter2 |-> "None", diameterDm |-> "None", swept_area |-> "None", known_unit |-> "None"],
    [manufacturer |-> "Siemens", diameter |-> "90", power |-> "2.0", radius |-> "None", rule |-> 7, name |-> "Siemens SWT-2.0-90", group0 |-> "Siemens SWT-2.0-90", manufacturer_code |-> "None", power2 |-> "None", powerOW |-> "None", powerDW |-> "None", powerMW |-> "None", powerKW |-> "None", diameter2 |-> "None", diameterDm |-> "None", swept_area |-> "None", known_unit |-> "None"],
    [manufacturer |-> "Siemens", diameter |-> "None", power |-> "None", radius |-> "None", rule |-> 45, name |-> "Siemens SWT-2.0-90", group0 |-> "Siemens SWT-2.0", manufacturer_code |-> "None", power2 |-> "None", powerOW |-> "None", powerDW |-> "None", powerMW |-> "None", powerKW |-> "None", diameter2 |-> "None", diameterDm |-> "None", swept_area |-> "None", known_unit |-> "None"],
    [manufacturer |-> "Siemens", diameter |-> "150", power |-> "3.0", radius |-> "None", rule |-> 7, name |-> "Siemens SWT-3.0-150", group0 |-> "Siemens SWT-3.0-150", manufacturer_code |-> "None", power2 |-> "None", powerOW |-> "None", powerDW |-> "None", powerMW |-> "None", powerKW |-> "None", diameter2 |-> "None", diameterDm |-> "None", swept_area |-> "None", known_unit |-> "None"],
    [manufacturer |-> "Siemens", diameter |-> "None", power |-> "None", radius |-> "None", rule |-> 45, name |-> "Siemens SWT-3.0-150", group0 |-> "Siemens SWT-3.0", manufacturer_code |-> "None", power2 |-> "None", powerOW |-> "None", powerDW |-> "None", powerMW |-> "None", powerKW |-> "None", diameter2 |-> "None", diameterDm |-> "None", swept_area |-> "None", known_unit |-> "None"],
    [manufacturer |-> "Siemens", diameter |-> "30", power |-> "3.0", radius |-> "None", rule |-> 7, name |-> "Siemens SWT-3.0-30", group0 |-> "Siemens SWT-3.0-30", manufacturer_code |-> "None", power2 |-> "None", powerOW |-> "None", powerDW |-> "None", powerMW |-> "None", powerKW |-> "None", diameter2 |-> "None", diameterDm |-> "None", swept_area |-> "None", known_unit |-> "None"],
    [manufacturer |-> "Siemens", diameter |-> "None", power |-> "None", radius |-> "None", rule |-> 45, name |-> "Siemens SWT-3.0-30", group0 |-> "Siemens SWT-3.0", manufacturer_code |-> "None", power2 |-> "None", powerOW |-> "None", powerDW |-> "None", powerMW |-> "None", powerKW |-> "None", diameter2 |-> "None", diameterDm |-> "None", swept_area |-> "None", known_unit |-> "None"],
    [manufacturer |-> "Siemens", diameter |-> "82", power |-> "3.0", radius |-> "None", rule |-> 7, name |-> "Siemens SWT-3.0-82", group0 |-> "Siemens SWT-3.0-82", manufacturer_code |-> "None", power2 |-> "None", powerOW |-> "None", powerDW |-> "None", powerMW |-> "None", powerKW |-> "None", diameter2 |-> "None", diameterDm |-> "None", swept_area |-> "None", known_unit |-> "None"],
    [manufacturer |-> "Siemens", diameter |-> "None", power |-> "None", radius |-> "None", rule |-> 45, name |-> "Siemens SWT-3.0-82", group0 |-> "Siemens SWT-3.0", manufacturer_code |-> "None", power2 |-> "None", powerOW |-> "None", powerDW |-> "None", powerMW |-> "None", powerKW |-> "None", diameter2 |-> "None", diameterDm |-> "None", swept_area |-> "None", known_unit |-> "None"],
    [manufacturer |-> "Siemens", diameter |-> "90", power |-> "3.0", radius |-> "None", rule |-> 7, name |-> "Siemens SWT-3.0-90", group0 |-> "Siemens SWT-3.0-90", manufacturer_code |-> "None", power2 |-> "None", powerOW |-> "None", powerDW |-> "None", powerMW |-> "None", powerKW |-> "None", diameter2 |-> "None", diameterDm |-> "None", swept_area |-> "None", known_unit |-> "None"],
    [manufacturer |-> "Siemens", diameter |-> "None", power |-> "None", radius |-> "None", rule |-> 45, name |-> "Siemens SWT-3.0-90", group0 |-> "Siemens SWT-3.0", manufacturer_code |-> "None", power2 |-> "None", powerOW |-> "None", powerDW |-> "None", powerMW |-> "None", powerKW |-> "None", diameter2 |-> "None", diameterDm |-> "None", swept_area |-> "None", known_unit |-> "None"],
    [manufacturer |-> "Siemens", diameter |-> "150", power |-> "3.5", radius |-> "None", rule |-> 7, name |-> "Siemens SWT-3.5-150", group0 |-> "Siemens SWT-3.5-150", manufacturer_code |-> "None", power2 |-> "None", powerOW |-> "None", powerDW |-> "None", powerMW |-> "None", powerKW |-> "None", diameter2 |-> "None", diameterDm |-> "None", swept_area |-> "None", known_unit |-> "None"],
    [manufacturer |-> "Siemens", diameter |-> "None", power |-> "None", radius |-> "None", rule |-> 45, name |-> "Siemens SWT-3.5-150", group0 |-> "Siemens SWT-3.5", manufacturer_code |-> "None", power2 |-> "None", powerOW |-> "None", powerDW |-> "None", powerMW |-> "None", powerKW |-> "None", diameter2 |-> "None", diameterDm |-> "None", swept_area |-> "None", known_unit |-> "None"],
    [manufacturer |-> "Siemens", diameter |-> "30", power |-> "3.5", radius |-> "None", rule |-> 7, name |-> "Siemens SWT-3.5-30", group0 |-> "Siemens SWT-3.5-30", manufacturer_code |-> "None", power2 |-> "None", powerOW |-> "None", powerDW |-> "None", powerMW |-> "None", powerKW |-> "None", diameter2 |-> "None", diameterDm |-> "None", swept_area |-> "None", known_unit |-> "None"],
    [manufacturer |-> "Siemens", diameter |-> "None", power |-> "None", radius |-> "None", rule |-> 45, name |-> "Siemens SWT-3.5-30", group0 |-> "Siemens SWT-3.5", manufacturer_code |-> "None", power2 |-> "None", powerOW |-> "None", powerDW |-> "None", powerMW |-> "None", powerKW |-> "None", diameter2 |-> "None", diameterDm |-> "None", swept_area |-> "None", known_unit |-> "None"],
    [manufacturer |-> "Siemens", diameter |-> "82", power |-> "3.5", radius |-> "None", rule |-> 7, name |-> "Siemens SWT-3.5-82", group0 |-> "Siemens SWT-3.5-82", manufacturer_code |-> "None", power2 |-> "None", powerOW |-> "None", powerDW |-> "None", powerMW |-> "None", powerKW |-> "None", diameter2 |-> "None", diameterDm |-> "None", swept_area |-> "None", known_unit |-> "None"],
    [manufacturer |-> "Siemens", diameter |-> "None", power |-> "None", radius |-> "None", rule |-> 45, name |-> "Siemens SWT-3.5-82", group0 |-> "Siemens SWT-3.5", manufacturer_code |-> "None", power2 |-> "None", powerOW |-> "None", powerDW |-> "None", powerMW |-> "None", powerKW |-> "None", diameter2 |-> "None", diameterDm |-> "None", swept_area |-> "None", known_unit |-> "None"],
    [manufacturer |-> "Siemens", diameter |-> "90", power |-> "3.5", radius |-> "None", rule |-> 7, name |-> "Siemens SWT-3.5-90", group0 |-> "Siemens SWT-3.5-90", manufacturer_code |-> "None", power2 |-> "None", powerOW |-> "None", powerDW |-> "None", powerMW |-> "None", powerKW |-> "None", diameter2 |-> "None", diameterDm |-> "None", swept_area |-> "None", known_unit |-> "None"],
    [manufacturer |-> "Siemens", diameter |-> "None", power |-> "None", radius |-> "None", rule |-> 45, name |-> "Siemens SWT-3.5-90", group0 |-> "Siemens SWT-3.5", manufacturer_code |-> "None", power2 |-> "None", powerOW |-> "None", powerDW |-> "None", powerMW |-> "None", powerKW |-> "None", diameter2 |-> "None", diameterDm |-> "None", swept_area |-> "None", known_unit |-> "None"],
    [manufacturer |-> "VESTAS", diameter |-> "90", power |-> "None", radius |-> "None", rule |-> 1, name |-> "VESTAS V90 3.0MW", group0 |-> "VESTAS V90", manufacturer_code |-> "None", power2 |-> "None", powerOW |-> "None", powerDW |-> "None", powerMW |-> "None", powerKW |-> "None", diameter2 |-> "None", diameterDm |-> "None", swept_area |-> "None", known_unit |-> "None"],
    [manufacturer |-> "VESTAS", diameter |-> "None", power |-> "None", radius |-> "None", rule |-> 45, name |-> "VESTAS V90 3.0MW", group0 |-> "VESTAS V90", manufacturer_code |-> "None", power2 |-> "None", powerOW |-> "None", powerDW |-> "None", powerMW |-> "None", powerKW |-> "None", diameter2 |-> "None", diameterDm |-> "None", swept_area |-> "None", known_unit |-> "None"],
    [manufacturer |-> "VESTAS", diameter |-> "90", power |-> "3.0", radius |-> "None", rule |-> 1, name |-> "VESTAS V90-3.0MW", group0 |-> "VESTAS V90-3.0", manufacturer_code |-> "None", power2 |-> "None", powerOW |-> "None", powerDW |-> "None", powerMW |-> "None", powerKW |-> "None", diameter2 |-> "None", diameterDm |-> "None", swept_area |-> "None", known_unit |-> "None"],
    [manufacturer |-> "VESTAS", diameter |-> "None", power |-> "None", radius |-> "None", rule |-> 45, name |-> "VESTAS V90-3.0MW", group0 |-> "VESTAS V90-3.0", manufacturer_code |-> "None", power2 |-> "None", powerOW |-> "None", powerDW |-> "None", powerMW |-> "None", powerKW |-> "None", diameter2 |-> "None", diameterDm |-> "None", swept_area |-> "None", known_unit |-> "None"],
    [manufacturer |-> "Vestas", diameter |-> "150", power |-> "1.5", radius |-> "None", rule |-> 1, name |-> "Vestas V150-1.5", group0 |-> "Vestas V150-1.5", manufacturer_code |-> "None", power2 |-> "None", powerOW |-> "None", powerDW |-> "None", powerMW |-> "None", powerKW |-> "None", diameter2 |-> "None", diameterDm |-> "None", swept_area |-> "None", known_unit |-> "None"],
    [manufacturer |-> "Vestas", diameter |-> "None", power |-> "None", radius |-> "None", rule |-> 45, name |-> "Vestas V150-1.5", group0 |-> "Vestas V150-1.5", manufacturer_code |-> "None", power2 |-> "None", powerOW |-> "None", powerDW |-> "None", powerMW |-> "None", powerKW |-> "None", diameter2 |-> "None", diameterDm |-> "None", swept_area |-> "None", known_unit |-> "None"],
    [manufacturer |-> "Vestas", diameter |-> "150", power |-> "2.0", radius |-> "None", rule |-> 1, name |-> "Vestas V150-2.0", group0 |-> "Vestas V150-2.0", manufacturer_code |-> "None", power2 |-> "None", powerOW |-> "None", powerDW |-> "None", powerMW |-> "None", powerKW |-> "None", diameter2 |-> "None", diameterDm |-> "None", swept_area |-> "None", known_unit |-> "None"],
    [manufacturer |-> "Vestas", diameter |-> "None", power |-> "None", radius |-> "None", rule |-> 45, name |-> "Vestas V150-2.0", group0 |-> "Vestas V150-2.0", manufacturer_code |-> "None", power2 |-> "None", powerOW |-> "None", powerDW |-> "None", powerMW |-> "None", powerKW |-> "None", diameter2 |-> "None", diameterDm |-> "None", swept_area |-> "None", known_unit |-> "None"],
    [manufacturer |-> "Vestas", diameter |-> "150", power |-> "225", radius |-> "None", rule |-> 1, name |-> "Vestas V150-225", group0 |-> "Vestas V150-225", manufacturer_code |-> "None", power2 |-> "None", powerOW |-> "None", powerDW |-> "None", powerMW |-> "None", powerKW |-> "None", diameter2 |-> "None", diameterDm |-> "None", swept_area |-> "None", known_unit |-> "None"],
    [manufacturer |-> "Vestas", diameter |-> "None", power |-> "None", radius |-> "None", rule |-> 45, name |-> "Vestas V150-225", group0 |-> "Vestas V150-225", manufacturer_code |-> "None", power2 |-> "None", powerOW |-> "None", powerDW |-> "None", powerMW |-> "None", powerKW |-> "None", diameter2 |-> "None", diameterDm |-> "None", swept_area |-> "None", known_unit |-> "None"],
    [manufacturer |-> "Vestas", diameter |-> "150", power |-> "3.0", radius |-> "None", rule |-> 1, name |-> "Vestas V150-3.0", group0 |-> "Vestas V150-3.0", manufacturer_code |-> "None", power2 |-> "None", powerOW |-> "None", powerDW |-> "None", powerMW |-> "None", powerKW |-> "None", diameter2 |-> "None", diameterDm |-> "None", swept_area |-> "None", known_unit |-> "None"],
    [manufacturer |-> "Vestas", diameter |-> "None", power |-> "None", radius |-> "None", rule |-> 45, name |-> "Vestas V150-3.0", group0 |-> "Vestas V150-3.0", manufacturer_code |-> "None", power2 |-> "None", powerOW |-> "None", powerDW |-> "None", powerMW |-> "None", powerKW |-> "None", diameter2 |-> "None", diameterDm |-> "None", swept_area |-> "None", known_unit |-> "None"],
    [manufacturer |-> "Vestas", diameter |-> "150", power |-> "3.5", radius |-> "None", rule |-> 1, name |-> "Vestas V150-3.5", group0 |-> "Vestas V150-3.5", manufacturer_code |-> "None", power2 |-> "None", powerOW |-> "None", powerDW |-> "None", powerMW |-> "None", powerKW |-> "None", diameter2 |-> "None", diameterDm |-> "None", swept_area |-> "None", known_unit |-> "None"],
    [manufacturer |-> "Vestas", diameter |-> "None", power |-> "None", radius |-> "None", rule |-> 45, name |-> "Vestas V150-3.5", group0 |-> "Vestas V150-3.5", manufacturer_code |-> "None", power2 |-> "None", powerOW |-> "None", powerDW |-> "None", powerMW |-> "None", powerKW |-> "None", diameter2 |-> "None", diameterDm |-> "None", swept_area |-> "None", known_unit |-> "None"],
    [manufacturer |-> "Vestas", diameter |-> "30", power |-> "1.5", radius |-> "None", rule |-> 1, name |-> "Vestas V30-1.5", group0 |-> "Vestas V30-1.5", manufacturer_code |-> "None", power2 |-> "None", powerOW |-> "None", powerDW |-> "None", powerMW |-> "None", powerKW |-> "None", diameter2 |-> "None", diameterDm |-> "None", swept_area |-> "None", known_unit |-> "None"],
    [manufacturer |-> "Vestas", diameter |-> "None", power |-> "None", radius |-> "None", rule |-> 45, name |-> "Vestas V30-1.5", group0 |-> "Vestas V30-1.5", manufacturer_code |-> "None", power2 |-> "None", powerOW |-> "None", powerDW |-> "None", powerMW |-> "None", powerKW |-> "None", diameter2 |-> "None", diameterDm |-> "None", swept_area |-> "None", known_unit |-> "None"],
    [manufacturer |-> "Vestas", diameter |-> "30", power |-> "2.0", radius |-> "None", rule |-> 1, name |-> "Vestas V30-2.0", group0 |-> "Vestas V30-2.0", manufacturer_code |-> "None", power2 |-> "None", powerOW |-> "None", powerDW |-> "None", powerMW |-> "None", powerKW |-> "None", diameter2 |-> "None", diameterDm |-> "None", swept_area |-> "None", known_unit |-> "None"],
    [manufacturer |-> "Vestas", diameter |-> "None", power |-> "None", radius |-> "None", rule |-> 45, name |-> "Vestas V30-2.0", group0 |-> "Vestas V30-2.0", manufacturer_code |-> "None", power2 |-> "None", powerOW |-> "None", powerDW |-> "None", powerMW |-> "None", powerKW |-> "None", diameter2 |-> "None", diameterDm |-> "None", swept_area |-> "None", known_unit |-> "None"],
    [manufacturer |-> "Vestas", diameter |-> "30", power |-> "225", radius |-> "None", rule |-> 1, name |-> "Vestas V30-225", group0 |-> "Vestas V30-225", manufacturer_code |-> "None", power2 |-> "None", powerOW |-> "None", powerDW |-> "None", powerMW |-> "None", powerKW |-> "None", diameter2 |-> "None", diameterDm |-> "None", swept_area |-> "None", known_unit |-> "None"],
    [manufacturer |-> "Vestas", diameter |-> "None", power |-> "None", radius |-> "None", rule |-> 45, name |-> "Vestas V30-225", group0 |-> "Vestas V30-225", manufacturer_code |-> "None", power2 |-> "None", powerOW |-> "None", powerDW |-> "None", powerMW |-> "None", powerKW |-> "None", diameter2 |-> "None", diameterDm |-> "None", swept_area |-> "None", known_unit |-> "None"],
    [manufacturer |-> "Vestas", diameter |-> "30", power |-> "3.0", radius |-> "None", rule |-> 1, name |-> "Vestas V30-3.0", group0 |-> "Vestas V30-3.0", manufacturer_code |-> "None", power2 |-> "None", powerOW |-> "None", powerDW |-> "None", powerMW |-> "None", powerKW |-> "None", diameter2 |-> "None", diameterDm |-> "None", swept_area |-> "None", known_unit |-> "None"],
    [manufacturer |-> "Vestas", diameter |-> "None", power |-> "None", radius |-> "None", rule |-> 45, name |-> "Vestas V30-3.0", group0 |-> "Vestas V30-3.0", manufacturer_code |-> "None", power2 |-> "None", powerOW |-> "None", powerDW |-> "None", powerMW |-> "None", powerKW |-> "None", diameter2 |-> "None", diameterDm |-> "None", swept_area |-> "None", known_unit |-> "None"],
    [manufacturer |-> "Vestas", diameter |-> "30", power |-> "3.5", radius |-> "None", rule |-> 1, name |-> "Vestas V30-3.5", group0 |-> "Vestas V30-3.5", manufacturer_code |-> "None", power2 |-> "None", powerOW |-> "None", powerDW |-> "None", powerMW |-> "None", powerKW |-> "None", diameter2 |-> "None", diameterDm |-> "None", swept_area |-> "None", known_unit |-> "None"],
    [manufacturer |-> "Vestas", diameter |-> "None", power |-> "None", radius |-> "None", rule |-> 45, name |-> "Vestas V30-3.5", group0 |-> "Vestas V30-3.5", manufacturer_code |-> "None", power2 |-> "None", powerOW |-> "None", powerDW |-> "None", powerMW |-> "None", powerKW |-> "None", diameter2 |-> "None", diameterDm |-> "None", swept_area |-> "None", known_unit |-> "None"],
    [manufacturer |-> "Vestas", diameter |-> "82", power |-> "1.5", radius |-> "None", rule |-> 1, name |-> "Vestas V82-1.5", group0 |-> "Vestas V82-1.5", manufacturer_code |-> "None", power2 |-> "None", powerOW |-> "None", powerDW |-> "None", powerMW |-> "None", powerKW |-> "None", diameter2 |-> "None", diameterDm |-> "None", swept_area |-> "None", known_unit |-> "None"],
    [manufacturer |-> "Vestas", diameter |-> "None", power |-> "None", radius |-> "None", rule |-> 45, name |-> "Vestas V82-1.5", group0 |-> "Vestas V82-1.5", manufacturer_code |-> "None", power2 |-> "None", powerOW |-> "None", powerDW |-> "None", powerMW |-> "None", powerKW |-> "None", diameter2 |-> "None", diameterDm |-> "None", swept_area |-> "None", known_unit |-> "None"],
    [manufacturer |-> "Vestas", diameter |-> "82", power |-> "2.0", radius |-> "None", rule |-> 1, name |-> "Vestas V82-2.0", group0 |-> "Vestas V82-2.0", manufacturer_code |-> "None", power2 |-> "None", powerOW |-> "None", powerDW |-> "None", powerMW |-> "None", powerKW |-> "None", diameter2 |-> "None", diameterDm |-> "None", swept_area |-> "None", known_unit |-> "None"],
    [manufacturer |-> "Vestas", diameter |-> "None", power |-> "None", radius |-> "None", rule |-> 45, name |-> "Vestas V82-2.0", group0 |-> "Vestas V82-2.0", manufacturer_code |-> "None", power2 |-> "None", powerOW |-> "None", powerDW |-> "None", powerMW |-> "None", powerKW |-> "None", diameter2 |-> "None", diameterDm |-> "None", swept_area |-> "None", known_unit |-> "None"],
    [manufacturer |-> "Vestas", diameter |-> "82", power |-> "225", radius |-> "None", rule |-> 1, name |-> "Vestas V82-225", group0 |-> "Vestas V82-225", manufacturer_code |-> "None", power2 |-> "None", powerOW |-> "None", powerDW |-> "None", powerMW |-> "None", powerKW |-> "None", diameter2 |-> "None", diameterDm |-> "None", swept_area |-> "None", known_unit |-> "None"],
    [manufacturer |-> "Vestas", diameter |-> "None", power |-> "None", radius |-> "None", rule |-> 45, name |-> "Vestas V82-225", group0 |-> "Vestas V82-225", manufacturer_code |-> "None", power2 |-> "None", powerOW |-> "None", powerDW |-> "None", powerMW |-> "None", powerKW |-> "None", diameter2 |-> "None", diameterDm |-> "None", swept_area |-> "None", known_unit |-> "None"],
    [manufacturer |-> "Vestas", diameter |-> "82", power |-> "3.0", radius |-> "None", rule |-> 1, name |-> "Vestas V82-3.0", group0 |-> "Vestas V82-3.0", manufacturer_code |-> "None", power2 |-> "None", powerOW |-> "None", powerDW |-> "None", powerMW |-> "None", powerKW |-> "None", diameter2 |-> "None", diameterDm |-> "None", swept_area |-> "None", known_unit |-> "None"],
    [manufacturer |-> "Vestas", diameter |-> "None", power |-> "None", radius |-> "None", rule |-> 45, name |-> "Vestas V82-3.0", group0 |-> "Vestas V82-3.0", manufacturer_code |-> "None", power2 |-> "None", powerOW |-> "None", powerDW |-> "None", powerMW |-> "None", powerKW |-> "None", diameter2 |-> "None", diameterDm |-> "None", swept_area |-> "None", known_unit |-> "None"],
    [manufacturer |-> "Vestas", diameter |-> "82", power |-> "3.5", radius |-> "None", rule |-> 1, name |-> "Vestas V82-3.5", group0 |-> "Vestas V82-3.5", manufacturer_code |-> "None", power2 |-> "None", powerOW |-> "None", powerDW |-> "None", powerMW |-> "None", powerKW |-> "None", diameter2 |-> "None", diameterDm |-> "None", swept_area |-> "None", known_unit |-> "None"],
    [manufacturer |-> "Vestas", diameter |-> "None", power |-> "None", radius |-> "None", rule |-> 45, name |-> "Vestas V82-3.5", group0 |-> "Vestas V82-3.5", manufacturer_code |-> "None", power2 |-> "None", powerOW |-> "None", powerDW |-> "None", powerMW |-> "None", powerKW |-> "None", diameter2 |-> "None", diameterDm |-> "None", swept_area |-> "None", known_unit |-> "None"],
    [manufacturer |-> "Vestas", diameter |-> "90", power |-> "3.0", radius |-> "None", rule |-> 1, name |-> "Vestas V90 - 3.0", group0 |-> "Vestas V90 - 3.0", manufacturer_code |-> "None", power2 |-> "None", powerOW |-> "None", powerDW |-> "None", powerMW |-> "None", powerKW |-> "None", diameter2 |-> "None", diameterDm |-> "None", swept_area |-> "None", known_unit |-> "None"],
    [manufacturer |-> "Vestas", diameter |-> "None", power |-> "None", radius |-> "None", rule |-> 45, name |-> "Vestas V90 - 3.0", group0 |-> "Vestas V90", manufacturer_code |-> "None", power2 |-> "None", powerOW |-> "None", powerDW |-> "None", powerMW |-> "None", powerKW |-> "None", diameter2 |-> "None", diameterDm |-> "None", swept_area |-> "None", known_unit |-> "None"],
    [manufacturer |-> "Vestas", diameter |-> "90", power |-> "None", radius |-> "None", rule |-> 1, name |-> "Vestas V90 3.0MW", group0 |-> "Vestas V90", manufacturer_code |-> "None", power2 |-> "None", powerOW |-> "None", powerDW |-> "None", powerMW |-> "None", powerKW |-> "None", diameter2 |-> "None", diameterDm |-> "None", swept_area |-> "None", known_unit |-> "None"],
    [manufacturer |-> "Vestas", diameter |-> "None", power |-> "None", radius |-> "None", rule |-> 45, name |-> "Vestas V90 3.0MW", group0 |-> "Vestas V90", manufacturer_code |-> "None", power2 |-> "None", powerOW |-> "None", powerDW |-> "None", powerMW |-> "None", powerKW |-> "None", diameter2 |-> "None", diameterDm |-> "None", swept_area |-> "None", known_unit |-> "None"],
    [manufacturer |-> "Vestas", diameter |-> "90", power |-> "1.5", radius |-> "None", rule |-> 1, name |-> "Vestas V90-1.5", group0 |-> "Vestas V90-1.5", manufacturer_code |-> "None", power2 |-> "None", powerOW |-> "None", powerDW |-> "None", powerMW |-> "None", powerKW |-> "None", diameter2 |-> "None", diameterDm |-> "None", swept_area |-> "None", known_unit |-> "None"],
    [manufacturer |-> "Vestas", diameter |-> "None", power |-> "None", radius |-> "None", rule |-> 45, name |-> "Vestas V90-1.5", group0 |-> "Vestas V90-1.5", manufacturer_code |-> "None", power2 |-> "None", powerOW |-> "None", powerDW |-> "None", powerMW |-> "None", powerKW |-> "None", diameter2 |-> "None", diameterDm |-> "None", swept_area |-> "None", known_unit |-> "None"],
    [manufacturer |-> "Vestas", diameter |-> "90", power |-> "2.0", radius |-> "None", rule |-> 1, name |-> "Vestas V90-2.0", group0 |-> "Vestas V90-2.0", manufacturer_code |-> "None", power2 |-> "None", powerOW |-> "None", powerDW |-> "None", powerMW |-> "None", powerKW |-> "None", diameter2 |-> "None", diameterDm |-> "None", swept_area |-> "None", known_unit |-> "None"],
    [manufacturer |-> "Vestas", diameter |-> "None", power |-> "None", radius |-> "None", rule |-> 45, name |-> "Vestas V90-2.0", group0 |-> "Vestas V90-2.0", manufacturer_code |-> "None", power2 |-> "None", powerOW |-> "None", powerDW |-> "None", powerMW |-> "None", powerKW |-> "None", diameter2 |-> "None", diameterDm |-> "None", swept_area |-> "None", known_unit |-> "None"],
    [manufacturer |-> "Vestas", diameter |-> "90", power |-> "225", radius |-> "None", rule |-> 1, name |-> "Vestas V90-225", group0 |-> "Vestas V90-225", manufacturer_code |-> "None", power2 |-> "None", powerOW |-> "None", powerDW |-> "None", powerMW |-> "None", powerKW |-> "None", diameter2 |-> "None", diameterDm |-> "None", swept_area |-> "None", known_unit |-> "None"],
    [manufacturer |-> "Vestas", diameter |-> "None", power |-> "None", radius |-> "None", rule |-> 45, name |-> "Vestas V90-225", group0 |-> "Vestas V90-225", manufacturer_code |-> "None", power2 |-> "None", powerOW |-> "None", powerDW |-> "None", powerMW |-> "None", powerKW |-> "None", diameter2 |-> "None", diameterDm |-> "None", swept_area |-> "None", known_unit |-> "None"],
    [manufacturer |-> "Vestas", diameter |-> "90", power |-> "3.0", radius |-> "None", rule |-> 1, name |-> "Vestas V90-3.0", group0 |-> "Vestas V90-3.0", manufacturer_code |-> "None", power2 |-> "None", powerOW |-> "None", powerDW |-> "None", powerMW |-> "None", powerKW |-> "None", diameter2 |-> "None", diameterDm |-> "None", swept_area |-> "None", known_unit |-> "None"],
    [manufacturer |-> "Vestas", diameter |-> "None", power |-> "None", radius |-> "None", rule |-> 45, name |-> "Vestas V90-3.0", group0 |-> "Vestas V90-3.0", manufacturer_code |-> "None", power2 |-> "None", powerOW |-> "None", powerDW |-> "None", powerMW |-> "None", powerKW |-> "None", diameter2 |-> "None", diameterDm |-> "None", swept_area |-> "None", known_unit |-> "None"],
    [manufacturer |-> "Vestas", diameter |-> "90", power |-> "3.5", radius |-> "None", rule |-> 1, name |-> "Vestas V90-3.5", group0 |-> "Vestas V90-3.5", manufacturer_code |-> "None", power2 |-> "None", powerOW |-> "None", powerDW |-> "None", powerMW |-> "None", powerKW |-> "None", diameter2 |-> "None", diameterDm |-> "None", swept_area |-> "None", known_unit |-> "None"],
    [manufacturer |-> "Vestas", diameter |-> "None", power |-> "None", radius |-> "None", rule |-> 45, name |-> "Vestas V90-3.5", group0 |-> "Vestas V90-3.5", manufacturer_code |-> "None", power2 |-> "None", powerOW |-> "None", powerDW |-> "None", powerMW |-> "None", powerKW |-> "None", diameter2 |-> "None", diameterDm |-> "None", swept_area |-> "None", known_unit |-> "None"],
    [manufacturer |-> "WTN", diameter |-> "None", power |-> "None", radius |-> "None", rule |-> 43, name |-> "WTN WTN 648", group0 |-> "WTN WTN 648", manufacturer_code |-> "None", power2 |-> "None", powerOW |-> "None", powerDW |-> "None", powerMW |-> "None", powerKW |-> "648", diameter2 |-> "None", diameterDm |-> "None", swept_area |-> "None", known_unit |-> "None"],
    [manufacturer |-> "WTN", diameter |-> "None", power |-> "None", radius |-> "None", rule |-> 45, name |-> "WTN WTN 648", group0 |-> "WTN WTN 648", manufacturer_code |-> "None", power2 |-> "None", powerOW |-> "None", powerDW |-> "None", powerMW |-> "None", powerKW |-> "None", diameter2 |-> "None", diameterDm |-> "None", swept_area |-> "None", known_unit |-> "None"] }

CleanTable ==
  (   "" :> ""
   @@ "BARD V" :> "BARD V"
   @@ "Bonus 44/600" :> "Bonus 44/600"
   @@ "Bonus B150/1500" :> "Bonus B150/1500"
   @@ "Bonus B150/2000" :> "Bonus B150/2000"
   @@ "Bonus B150/225" :> "Bonus B150/225"
   @@ "Bonus B150/3000" :> "Bonus B150/3000"
   @@ "Bonus B150/3450" :> "Bonus B150/3450"
   @@ "Bonus B30/1500" :> "Bonus B30/1500"
   @@ "Bonus B30/2000" :> "Bonus B30/2000"
   @@ "Bonus B30/225" :> "Bonus B30/225"
   @@ "Bonus B30/3000" :> "Bonus B30/3000"
   @@ "Bonus B30/3450" :> "Bonus B30/3450"
   @@ "Bonus B82/1500" :> "Bonus B82/1500"
   @@ "Bonus B82/2000" :> "Bonus B82/2000"
   @@ "Bonus B82/225" :> "Bonus B82/225"
   @@ "Bonus B82/3000" :> "Bonus B82/3000"
   @@ "Bonus B82/3450" :> "Bonus B82/3450"
   @@ "Bonus B90/1500" :> "Bonus B90/1500"
   @@ "Bonus B90/2000" :> "Bonus B90/2000"
   @@ "Bonus B90/225" :> "Bonus B90/225"
   @@ "Bonus B90/3000" :> "Bonus B90/3000"
   @@ "Bonus B90/3450" :> "Bonus B90/3450"
   @@ "DeWind D150/1500" :> "DeWind D150/1500"
   @@ "DeWind D150/2000" :> "DeWind D150/2000"
   @@ "DeWind D150/225" :> "DeWind D150/225"
   @@ "DeWind D150/3000" :> "DeWind D150/3000"
   @@ "DeWind D150/3450" :> "DeWind D150/3450"
   @@ "DeWind D30/1500" :> "DeWind D30/1500"
   @@ "DeWind D30/2000" :> "DeWind D30/2000"
   @@ "DeWind D30/225" :> "DeWind D30/225"
   @@ "DeWind D30/3000" :> "DeWind D30/3000"
   @@ "DeWind D30/3450" :> "DeWind D30/3450"
   @@ "DeWind D82/1500" :> "DeWind D82/1500"
   @@ "DeWind D82/2000" :> "DeWind D82/2000"
   @@ "DeWind D82/225" :> "DeWind D82/225"
   @@ "DeWind D82/3000" :> "DeWind D82/3000"
   @@ "DeWind D82/3450" :> "DeWind D82/3450"
   @@ "DeWind D90/1500" :> "DeWind D90/1500"
   @@ "DeWind D90/2000" :> "DeWind D90/2000"
   @@ "DeWind D90/225" :> "DeWind D90/225"
   @@ "DeWind D90/3000" :> "DeWind D90/3000"
   @@ "DeWind D90/3450" :> "DeWind D90/3450"
   @@ "E82" :> "E82"
   @@ "Enercon E-150 / 225" :> "Enercon E-150 / 225"
   @@ "Enercon E-150 2.000" :> "Enercon E-150 2.000"
   @@ "Enercon E-150 3.000" :> "Enercon E-150 3.000"
   @@ "Enercon E-150 3.450" :> "Enercon E-150 3.450"
   @@ "Enercon E-150/15.150" :> "Enercon E-150/15.150"
   @@ "Enercon E-30 / 225" :> "Enercon E-30 / 225"
   @@ "Enercon E-30 2.000" :> "Enercon E-30 2.000"
   @@ "Enercon E-30 3.000" :> "Enercon E-30 3.000"
   @@ "Enercon E-30 3.450" :> "Enercon E-30 3.450"
   @@ "Enercon E-30/15.30" :> "Enercon E-30/15.30"
   @@ "Enercon E-82 / 225" :> "Enercon E-82 / 225"
   @@ "Enercon E-82 2.000" :> "Enercon E-82 2.000"
   @@ "Enercon E-82 3.000" :> "Enercon E-82 3.000"
   @@ "Enercon E-82 3.450" :> "Enercon E-82 3.450"
   @@ "Enercon E-82/15.82" :> "Enercon E-82/15.82"
   @@ "Enercon E-90 / 225" :> "Enercon E-90 / 225"
   @@ "Enercon E-90 2.000" :> "Enercon E-90 2.000"
   @@ "Enercon E-90 3.000" :> "Enercon E-90 3.000"
   @@ "Enercon E-90 3.450" :> "Enercon E-90 3.450"
   @@ "Enercon E-90/15.90" :> "Enercon E-90/15.90"
   @@ "Enercon E82" :> "Enercon E82"
   @@ "FO_09001" :> "FO_09001"
   @@ "Gaia 133-11kW" :> "Gaia 133-11kW"
   @@ "Micon M 530-250" :> "Micon M 530-250"
   @@ "N90/2500" :> "N90/2500"
   @@ "NEG Micon NM 1500/64" :> "NEG Micon NM 1500/64"
   @@ "None" :> "None"
   @@ "Nordex N150/0.2" :> "Nordex N150/0.2"
   @@ "Nordex N150/1.5" :> "Nordex N150/1.5"
   @@ "Nordex N150/2.0" :> "Nordex N150/2.0"
   @@ "Nordex N150/3.0" :> "Nordex N150/3.0"
   @@ "Nordex N150/3.5" :> "Nordex N150/3.5"
   @@ "Nordex N30/1500" :> "Nordex N30/1500"
   @@ "Nordex N30/2000" :> "Nordex N30/2000"
   @@ "Nordex N30/225" :> "Nordex N30/225"
   @@ "Nordex N30/3000" :> "Nordex N30/3000"
   @@ "Nordex N30/3450" :> "Nordex N30/3450"
   @@ "Nordex N82/1500" :> "Nordex N82/1500"
   @@ "Nordex N82/2000" :> "Nordex N82/2000"
   @@ "Nordex N82/225" :> "Nordex N82/225"
   @@ "Nordex N82/3000" :> "Nordex N82/3000"
   @@ "Nordex N82/3450" :> "Nordex N82/3450"
   @@ "Nordex N90/1500" :> "Nordex N90/1500"
   @@ "Nordex N90/2000" :> "Nordex N90/2000"
   @@ "Nordex N90/225" :> "Nordex N90/225"
   @@ "Nordex N90/3000" :> "Nordex N90/3000"
   @@ "Nordex N90/3450" :> "Nordex N90/3450"
   @@ "REF-0.2" :> "REF-0.2"
   @@ "REF-1.5" :> "REF-1.5"
   @@ "REF-2.0" :> "REF-2.0"
   @@ "REF-3.0" :> "REF-3.0"
   @@ "REF-3.5" :> "REF-3.5"
   @@ "REpower 0.2M150" :> "REpower 0.2M150"
   @@ "REpower 0.2M30" :> "REpower 0.2M30"
   @@ "REpower 0.2M82" :> "REpower 0.2M82"
   @@ "REpower 0.2M90" :> "REpower 0.2M90"
   @@ "REpower 1.5M150" :> "REpower 1.5M150"
   @@ "REpower 1.5M30" :> "REpower 1.5M30"
   @@ "REpower 1.5M82" :> "REpower 1.5M82"
   @@ "REpower 1.5M90" :> "REpower 1.5M90"
   @@ "REpower 2.0M150" :> "REpower 2.0M150"
   @@ "REpower 2.0M30" :> "REpower 2.0M30"
   @@ "REpower 2.0M82" :> "REpower 2.0M82"
   @@ "REpower 2.0M90" :> "REpower 2.0M90"
   @@ "REpower 3.0M150" :> "REpower 3.0M150"
   @@ "REpower 3.0M30" :> "REpower 3.0M30"
   @@ "REpower 3.0M82" :> "REpower 3.0M82"
   @@ "REpower 3.0M90" :> "REpower 3.0M90"
   @@ "REpower 3.5M150" :> "REpower 3.5M150"
   @@ "REpower 3.5M30" :> "REpower 3.5M30"
   @@ "REpower 3.5M82" :> "REpower 3.5M82"
   @@ "REpower 3.5M90" :> "REpower 3.5M90"
   @@ "Senvion 0.2M150" :> "Senvion 0.2M150"
   @@ "Senvion 0.2M30" :> "Senvion 0.2M30"
   @@ "Senvion 0.2M82" :> "Senvion 0.2M82"
   @@ "Senvion 0.2M90" :> "Senvion 0.2M90"
   @@ "Senvion 1.5M150" :> "Senvion 1.5M150"
   @@ "Senvion 1.5M30" :> "Senvion 1.5M30"
   @@ "Senvion 1.5M82" :> "Senvion 1.5M82"
   @@ "Senvion 1.5M90" :> "Senvion 1.5M90"
   @@ "Senvion 2.0M150" :> "Senvion 2.0M150"
   @@ "Senvion 2.0M30" :> "Senvion 2.0M30"
   @@ "Senvion 2.0M82" :> "Senvion 2.0M82"
   @@ "Senvion 2.0M90" :> "Senvion 2.0M90"
   @@ "Senvion 3.0M150" :> "Senvion 3.0M150"
   @@ "Senvion 3.0M30" :> "Senvion 3.0M30"
   @@ "Senvion 3.0M82" :> "Senvion 3.0M82"
   @@ "Senvion 3.0M90" :> "Senvion 3.0M90"
   @@ "Senvion 3.5M150" :> "Senvion 3.5M150"
   @@ "Senvion 3.5M30" :> "Senvion 3.5M30"
   @@ "Senvion 3.5M82" :> "Senvion 3.5M82"
   @@ "Senvion 3.5M90" :> "Senvion 3.5M90"
   @@ "Senvion 6.XM152" :> "Senvion 6.XM152"
   @@ "Siemens Gamesa SG-0.2-150" :> "Siemens Gamesa SG-0.2-150"
   @@ "Siemens Gamesa SG-0.2-30" :> "Siemens Gamesa SG-0.2-30"
   @@ "Siemens Gamesa SG-0.2-82" :> "Siemens Gamesa SG-0.2-82"
   @@ "Siemens Gamesa SG-0.2-90" :> "Siemens Gamesa SG-0.2-90"
   @@ "Siemens Gamesa SG-1.5-150" :> "Siemens Gamesa SG-1.5-150"
   @@ "Siemens Gamesa SG-1.5-30" :> "Siemens Gamesa SG-1.5-30"
   @@ "Siemens Gamesa SG-1.5-82" :> "Siemens Gamesa SG-1.5-82"
   @@ "Siemens Gamesa SG-1.5-90" :> "Siemens Gamesa SG-1.5-90"
   @@ "Siemens Gamesa SG-2.0-150" :> "Siemens Gamesa SG-2.0-150"
   @@ "Siemens Gamesa SG-2.0-30" :> "Siemens Gamesa SG-2.0-30"
   @@ "Siemens Gamesa SG-2.0-82" :> "Siemens Gamesa SG-2.0-82"
   @@ "Siemens Gamesa SG-2.0-90" :> "Siemens Gamesa SG-2.0-90"
   @@ "Siemens Gamesa SG-3.0-150" :> "Siemens Gamesa SG-3.0-150"
   @@ "Siemens Gamesa SG-3.0-30" :> "Siemens Gamesa SG-3.0-30"
   @@ "Siemens Gamesa SG-3.0-82" :> "Siemens Gamesa SG-3.0-82"
   @@ "Siemens Gamesa SG-3.0-90" :> "Siemens Gamesa SG-3.0-90"
   @@ "Siemens Gamesa SG-3.5-150" :> "Siemens Gamesa SG-3.5-150"
   @@ "Siemens Gamesa SG-3.5-30" :> "Siemens Gamesa SG-3.5-30"
   @@ "Siemens Gamesa SG-3.5-82" :> "Siemens Gamesa SG-3.5-82"
   @@ "Siemens Gamesa SG-3.5-90" :> "Siemens Gamesa SG-3.5-90"
   @@ "Siemens SWT-0.2-150" :> "Siemens SWT-0.2-150"
   @@ "Siemens SWT-0.2-30" :> "Siemens SWT-0.2-30"
   @@ "Siemens SWT-0.2-82" :> "Siemens SWT-0.2-82"
   @@ "Siemens SWT-0.2-90" :> "Siemens SWT-0.2-90"
   @@ "Siemens SWT-1.5-150" :> "Siemens SWT-1.5-150"
   @@ "Siemens SWT-1.5-30" :> "Siemens SWT-1.5-30"
   @@ "Siemens SWT-1.5-82" :> "Siemens SWT-1.5-82"
   @@ "Siemens SWT-1.5-90" :> "Siemens SWT-1.5-90"
   @@ "Siemens SWT-2.0-150" :> "Siemens SWT-2.0-150"
   @@ "Siemens SWT-2.0-30" :> "Siemens SWT-2.0-30"
   @@ "Siemens SWT-2.0-82" :> "Siemens SWT-2.0-82"
   @@ "Siemens SWT-2.0-90" :> "Siemens SWT-2.0-90"
   @@ "Siemens SWT-3.0-150" :> "Siemens SWT-3.0-150"
   @@ "Siemens SWT-3.0-30" :> "Siemens SWT-3.0-30"
   @@ "Siemens SWT-3.0-82" :> "Siemens SWT-3.0-82"
   @@ "Siemens SWT-3.0-90" :> "Siemens SWT-3.0-90"
   @@ "Siemens SWT-3.5-150" :> "Siemens SWT-3.5-150"
   @@ "Siemens SWT-3.5-30" :> "Siemens SWT-3.5-30"
   @@ "Siemens SWT-3.5-82" :> "Siemens SWT-3.5-82"
   @@ "Siemens SWT-3.5-90" :> "Siemens SWT-3.5-90"
   @@ "V90 3.0MW" :> "V90 3.0MW"
   @@ "VESTAS V90 3.0MW" :> "VESTAS V90 3.0MW"
   @@ "VESTAS V90-3.0MW" :> "VESTAS V90-3.0MW"
   @@ "Vestas  V90-3,0" :> "Vestas V90-3.0"
   @@ "Vestas V150-1.5" :> "Vestas V150-1.5"
   @@ "Vestas V150-2.0" :> "Vestas V150-2.0"
   @@ "Vestas V150-225" :> "Vestas V150-225"
   @@ "Vestas V150-3.0" :> "Vestas V150-3.0"
   @@ "Vestas V150-3.5" :> "Vestas V150-3.5"
   @@ "Vestas V30-1.5" :> "Vestas V30-1.5"
   @@ "Vestas V30-2.0" :> "Vestas V30-2.0"
   @@ "Vestas V30-225" :> "Vestas V30-225"
   @@ "Vestas V30-3.0" :> "Vestas V30-3.0"
   @@ "Vestas V30-3.5" :> "Vestas V30-3.5"
   @@ "Vestas V82-1.5" :> "Vestas V82-1.5"
   @@ "Vestas V82-2.0" :> "Vestas V82-2.0"
   @@ "Vestas V82-225" :> "Vestas V82-225"
   @@ "Vestas V82-3.0" :> "Vestas V82-3.0"
   @@ "Vestas V82-3.5" :> "Vestas V82-3.5"
   @@ "Vestas V90 - 3.0" :> "Vestas V90 - 3.0"
   @@ "Vestas V90-1.5" :> "Vestas V90-1.5"
   @@ "Vestas V90-2.0" :> "Vestas V90-2.0"
   @@ "Vestas V90-225" :> "Vestas V90-225"
   @@ "Vestas V90-3.0" :> "Vestas V90-3.0"
   @@ "Vestas V90-3.5" :> "Vestas V90-3.5"
   @@ "WTN WTN 648" :> "WTN WTN 648"
   @@ "zzz" :> "zzz" )

ParserPrefixTable ==
  (   "" :> ""
   @@ "BARD V" :> "BARD V"
   @@ "Bonus 44/600" :> "Bonus 44/600"
   @@ "Bonus B150/1500" :> "Bonus B150/1500"
   @@ "Bonus B150/2000" :> "Bonus B150/2000"
   @@ "Bonus B150/225" :> "Bonus B150/225"
   @@ "Bonus B150/3000" :> "Bonus B150/3000"
   @@ "Bonus B150/3450" :> "Bonus B150/3450"
   @@ "Bonus B30/1500" :> "Bonus B30/1500"
   @@ "Bonus B30/2000" :> "Bonus B30/2000"
   @@ "Bonus B30/225" :> "Bonus B30/225"
   @@ "Bonus B30/3000" :> "Bonus B30/3000"
   @@ "Bonus B30/3450" :> "Bonus B30/3450"
   @@ "Bonus B82/1500" :> "Bonus B82/1500"
   @@ "Bonus B82/2000" :> "Bonus B82/2000"
   @@ "Bonus B82/225" :> "Bonus B82/225"
   @@ "Bonus B82/3000" :> "Bonus B82/3000"
   @@ "Bonus B82/3450" :> "Bonus B82/3450"
   @@ "Bonus B90/1500" :> "Bonus B90/1500"
   @@ "Bonus B90/2000" :> "Bonus B90/2000"
   @@ "Bonus B90/225" :> "Bonus B90/225"
   @@ "Bonus B90/3000" :> "Bonus B90/3000"
   @@ "Bonus B90/3450" :> "Bonus B90/3450"
   @@ "DeWind D150/1500" :> "DeWind D150/1500"
   @@ "DeWind D150/2000" :> "DeWind D150/2000"
   @@ "DeWind D150/225" :> "DeWind D150/225"
   @@ "DeWind D150/3000" :> "DeWind D150/3000"
   @@ "DeWind D150/3450" :> "DeWind D150/3450"
   @@ "DeWind D30/1500" :> "DeWind D30/1500"
   @@ "DeWind D30/2000" :> "DeWind D30/2000"
   @@ "DeWind D30/225" :> "DeWind D30/225"
   @@ "DeWind D30/3000" :> "DeWind D30/3000"
   @@ "DeWind D30/3450" :> "DeWind D30/3450"
   @@ "DeWind D82/1500" :> "DeWind D82/1500"
   @@ "DeWind D82/2000" :> "DeWind D82/2000"
   @@ "DeWind D82/225" :> "DeWind D82/225"
   @@ "DeWind D82/3000" :> "DeWind D82/3000"
   @@ "DeWind D82/3450" :> "DeWind D82/3450"
   @@ "DeWind D90/1500" :> "DeWind D90/1500"
   @@ "DeWind D90/2000" :> "DeWind D90/2000"
   @@ "DeWind D90/225" :> "DeWind D90/225"
   @@ "DeWind D90/3000" :> "DeWind D90/3000"
   @@ "DeWind D90/3450" :> "DeWind D90/3450"
   @@ "E82" :> "Enercon E82"
   @@ "Enercon E-150 / 225" :> "Enercon E-150 / 225"
   @@ "Enercon E-150 2.000" :> "Enercon E-150 2.000"
   @@ "Enercon E-150 3.000" :> "Enercon E-150 3.000"
   @@ "Enercon E-150 3.450" :> "Enercon E-150 3.450"
   @@ "Enercon E-150/15.150" :> "Enercon E-150/15.150"
   @@ "Enercon E-30 / 225" :> "Enercon E-30 / 225"
   @@ "Enercon E-30 2.000" :> "Enercon E-30 2.000"
   @@ "Enercon E-30 3.000" :> "Enercon E-30 3.000"
   @@ "Enercon E-30 3.450" :> "Enercon E-30 3.450"
   @@ "Enercon E-30/15.30" :> "Enercon E-30/15.30"
   @@ "Enercon E-82 / 225" :> "Enercon E-82 / 225"
   @@ "Enercon E-82 2.000" :> "Enercon E-82 2.000"
   @@ "Enercon E-82 3.000" :> "Enercon E-82 3.000"
   @@ "Enercon E-82 3.450" :> "Enercon E-82 3.450"
   @@ "Enercon E-82/15.82" :> "Enercon E-82/15.82"
   @@ "Enercon E-90 / 225" :> "Enercon E-90 / 225"
   @@ "Enercon E-90 2.000" :> "Enercon E-90 2.000"
   @@ "Enercon E-90 3.000" :> "Enercon E-90 3.000"
   @@ "Enercon E-90 3.450" :> "Enercon E-90 3.450"
   @@ "Enercon E-90/15.90" :> "Enercon E-90/15.90"
   @@ "Enercon E82" :> "Enercon E82"
   @@ "FO_09001" :> "FO_09001"
   @@ "Gaia 133-11kW" :> "Gaia 133-11kW"
   @@ "Micon M 530-250" :> "Micon M 530-250"
   @@ "N90/2500" :> "Nordex N90/2500"
   @@ "NEG Micon NM 1500/64" :> "NEG Micon NM 1500/64"
   @@ "None" :> "None"
   @@ "Nordex N150/0.2" :> "Nordex N150/0.2"
   @@ "Nordex N150/1.5" :> "Nordex N150/1.5"
   @@ "Nordex N150/2.0" :> "Nordex N150/2.0"
   @@ "Nordex N150/3.0" :> "Nordex N150/3.0"
   @@ "Nordex N150/3.5" :> "Nordex N150/3.5"
   @@ "Nordex N30/1500" :> "Nordex N30/1500"
   @@ "Nordex N30/2000" :> "Nordex N30/2000"
   @@ "Nordex N30/225" :> "Nordex N30/225"
   @@ "Nordex N30/3000" :> "Nordex N30/3000"
   @@ "Nordex N30/3450" :> "Nordex N30/3450"
   @@ "Nordex N82/1500" :> "Nordex N82/1500"
   @@ "Nordex N82/2000" :> "Nordex N82/2000"
   @@ "Nordex N82/225" :> "Nordex N82/225"
   @@ "Nordex N82/3000" :> "Nordex N82/3000"
   @@ "Nordex N82/3450" :> "Nordex N82/3450"
   @@ "Nordex N90/1500" :> "Nordex N90/1500"
   @@ "Nordex N90/2000" :> "Nordex N90/2000"
   @@ "Nordex N90/225" :> "Nordex N90/225"
   @@ "Nordex N90/3000" :> "Nordex N90/3000"
   @@ "Nordex N90/3450" :> "Nordex N90/3450"
   @@ "REF-0.2" :> "REF-0.2"
   @@ "REF-1.5" :> "REF-1.5"
   @@ "REF-2.0" :> "REF-2.0"
   @@ "REF-3.0" :> "REF-3.0"
   @@ "REF-3.5" :> "REF-3.5"
   @@ "REpower 0.2M150" :> "REpower 0.2M150"
   @@ "REpower 0.2M30" :> "REpower 0.2M30"
   @@ "REpower 0.2M82" :> "REpower 0.2M82"
   @@ "REpower 0.2M90" :> "REpower 0.2M90"
   @@ "REpower 1.5M150" :> "REpower 1.5M150"
   @@ "REpower 1.5M30" :> "REpower 1.5M30"
   @@ "REpower 1.5M82" :> "REpower 1.5M82"
   @@ "REpower 1.5M90" :> "REpower 1.5M90"
   @@ "REpower 2.0M150" :> "REpower 2.0M150"
   @@ "REpower 2.0M30" :> "REpower 2.0M30"
   @@ "REpower 2.0M82" :> "REpower 2.0M82"
   @@ "REpower 2.0M90" :> "REpower 2.0M90"
   @@ "REpower 3.0M150" :> "REpower 3.0M150"
   @@ "REpower 3.0M30" :> "REpower 3.0M30"
   @@ "REpower 3.0M82" :> "REpower 3.0M82"
   @@ "REpower 3.0M90" :> "REpower 3.0M90"
   @@ "REpower 3.5M150" :> "REpower 3.5M150"
   @@ "REpower 3.5M30" :> "REpower 3.5M30"
   @@ "REpower 3.5M82" :> "REpower 3.5M82"
   @@ "REpower 3.5M90" :> "REpower 3.5M90"
   @@ "Senvion 0.2M150" :> "Senvion 0.2M150"
   @@ "Senvion 0.2M30" :> "Senvion 0.2M30"
   @@ "Senvion 0.2M82" :> "Senvion 0.2M82"
   @@ "Senvion 0.2M90" :> "Senvion 0.2M90"
   @@ "Senvion 1.5M150" :> "Senvion 1.5M150"
   @@ "Senvion 1.5M30" :> "Senvion 1.5M30"
   @@ "Senvion 1.5M82" :> "Senvion 1.5M82"
   @@ "Senvion 1.5M90" :> "Senvion 1.5M90"
   @@ "Senvion 2.0M150" :> "Senvion 2.0M150"
   @@ "Senvion 2.0M30" :> "Senvion 2.0M30"
   @@ "Senvion 2.0M82" :> "Senvion 2.0M82"
   @@ "Senvion 2.0M90" :> "Senvion 2.0M90"
   @@ "Senvion 3.0M150" :> "Senvion 3.0M150"
   @@ "Senvion 3.0M30" :> "Senvion 3.0M30"
   @@ "Senvion 3.0M82" :> "Senvion 3.0M82"
   @@ "Senvion 3.0M90" :> "Senvion 3.0M90"
   @@ "Senvion 3.5M150" :> "Senvion 3.5M150"
   @@ "Senvion 3.5M30" :> "Senvion 3.5M30"
   @@ "Senvion 3.5M82" :> "Senvion 3.5M82"
   @@ "Senvion 3.5M90" :> "Senvion 3.5M90"
   @@ "Senvion 6.XM152" :> "Senvion 6.XM152"
   @@ "Siemens Gamesa SG-0.2-150" :> "Siemens Gamesa SG-0.2-150"
   @@ "Siemens Gamesa SG-0.2-30" :> "Siemens Gamesa SG-0.2-30"
   @@ "Siemens Gamesa SG-0.2-82" :> "Siemens Gamesa SG-0.2-82"
   @@ "Siemens Gamesa SG-0.2-90" :> "Siemens Gamesa SG-0.2-90"
   @@ "Siemens Gamesa SG-1.5-150" :> "Siemens Gamesa SG-1.5-150"
   @@ "Siemens Gamesa SG-1.5-30" :> "Siemens Gamesa SG-1.5-30"
   @@ "Siemens Gamesa SG-1.5-82" :> "Siemens Gamesa SG-1.5-82"
   @@ "Siemens Gamesa SG-1.5-90" :> "Siemens Gamesa SG-1.5-90"
   @@ "Siemens Gamesa SG-2.0-150" :> "Siemens Gamesa SG-2.0-150"
   @@ "Siemens Gamesa SG-2.0-30" :> "Siemens Gamesa SG-2.0-30"
   @@ "Siemens Gamesa SG-2.0-82" :> "Siemens Gamesa SG-2.0-82"
   @@ "Siemens Gamesa SG-2.0-90" :> "Siemens Gamesa SG-2.0-90"
   @@ "Siemens Gamesa SG-3.0-150" :> "Siemens Gamesa SG-3.0-150"
   @@ "Siemens Gamesa SG-3.0-30" :> "Siemens Gamesa SG-3.0-30"
   @@ "Siemens Gamesa SG-3.0-82" :> "Siemens Gamesa SG-3.0-82"
   @@ "Siemens Gamesa SG-3.0-90" :> "Siemens Gamesa SG-3.0-90"
   @@ "Siemens Gamesa SG-3.5-150" :> "Siemens Gamesa SG-3.5-150"
   @@ "Siemens Gamesa SG-3.5-30" :> "Siemens Gamesa SG-3.5-30"
   @@ "Siemens Gamesa SG-3.5-82" :> "Siemens Gamesa SG-3.5-82"
   @@ "Siemens Gamesa SG-3.5-90" :> "Siemens Gamesa SG-3.5-90"
   @@ "Siemens SWT-0.2-150" :> "Siemens SWT-0.2-150"
   @@ "Siemens SWT-0.2-30" :> "Siemens SWT-0.2-30"
   @@ "Siemens SWT-0.2-82" :> "Siemens SWT-0.2-82"
   @@ "Siemens SWT-0.2-90" :> "Siemens SWT-0.2-90"
   @@ "Siemens SWT-1.5-150" :> "Siemens SWT-1.5-150"
   @@ "Siemens SWT-1.5-30" :> "Siemens SWT-1.5-30"
   @@ "Siemens SWT-1.5-82" :> "Siemens SWT-1.5-82"
   @@ "Siemens SWT-1.5-90" :> "Siemens SWT-1.5-90"
   @@ "Siemens SWT-2.0-150" :> "Siemens SWT-2.0-150"
   @@ "Siemens SWT-2.0-30" :> "Siemens SWT-2.0-30"
   @@ "Siemens SWT-2.0-82" :> "Siemens SWT-2.0-82"
   @@ "Siemens SWT-2.0-90" :> "Siemens SWT-2.0-90"
   @@ "Siemens SWT-3.0-150" :> "Siemens SWT-3.0-150"
   @@ "Siemens SWT-3.0-30" :> "Siemens SWT-3.0-30"
   @@ "Siemens SWT-3.0-82" :> "Siemens SWT-3.0-82"
   @@ "Siemens SWT-3.0-90" :> "Siemens SWT-3.0-90"
   @@ "Siemens SWT-3.5-150" :> "Siemens SWT-3.5-150"
   @@ "Siemens SWT-3.5-30" :> "Siemens SWT-3.5-30"
   @@ "Siemens SWT-3.5-82" :> "Siemens SWT-3.5-82"
   @@ "Siemens SWT-3.5-90" :> "Siemens SWT-3.5-90"
   @@ "V90 3.0MW" :> "Vestas V90 3.0MW"
   @@ "VESTAS V90 3.0MW" :> "VESTAS V90 3.0MW"
   @@ "VESTAS V90-3.0MW" :> "VESTAS V90-3.0MW"
   @@ "Vestas V150-1.5" :> "Vestas V150-1.5"
   @@ "Vestas V150-2.0" :> "Vestas V150-2.0"
   @@ "Vestas V150-225" :> "Vestas V150-225"
   @@ "Vestas V150-3.0" :> "Vestas V150-3.0"
   @@ "Vestas V150-3.5" :> "Vestas V150-3.5"
   @@ "Vestas V30-1.5" :> "Vestas V30-1.5"
   @@ "Vestas V30-2.0" :> "Vestas V30-2.0"
   @@ "Vestas V30-225" :> "Vestas V30-225"
   @@ "Vestas V30-3.0" :> "Vestas V30-3.0"
   @@ "Vestas V30-3.5" :> "Vestas V30-3.5"
   @@ "Vestas V82-1.5" :> "Vestas V82-1.5"
   @@ "Vestas V82-2.0" :> "Vestas V82-2.0"
   @@ "Vestas V82-225" :> "Vestas V82-225"
   @@ "Vestas V82-3.0" :> "Vestas V82-3.0"
   @@ "Vestas V82-3.5" :> "Vestas V82-3.5"
   @@ "Vestas V90 - 3.0" :> "Vestas V90 - 3.0"
   @@ "Vestas V90-1.5" :> "Vestas V90-1.5"
   @@ "Vestas V90-2.0" :> "Vestas V90-2.0"
   @@ "Vestas V90-225" :> "Vestas V90-225"
   @@ "Vestas V90-3.0" :> "Vestas V90-3.0"
   @@ "Vestas V90-3.5" :> "Vestas V90-3.5"
   @@ "WTN WTN 648" :> "WTN WTN 648"
   @@ "zzz" :> "zzz" )

FloatTable ==
  (   "0.2" :> 20
   @@ "01" :> 100
   @@ "090" :> 9000
   @@ "1.5" :> 150
   @@ "11" :> 1100
   @@ "133" :> 13300
   @@ "15" :> 1500
   @@ "150" :> 15000
   @@ "1500" :> 150000
   @@ "152" :> 15200
   @@ "2.0" :> 200
   @@ "2.000" :> 200
   @@ "2000" :> 200000
   @@ "225" :> 22500
   @@ "250" :> 25000
   @@ "2500" :> 250000
   @@ "3.0" :> 300
   @@ "3.000" :> 300
   @@ "3.450" :> 345
   @@ "3.5" :> 350
   @@ "30" :> 3000
   @@ "3000" :> 300000
   @@ "3450" :> 345000
   @@ "44" :> 4400
   @@ "530" :> 53000
   @@ "6.0" :> 600
   @@ "6.X" :> -1
   @@ "600" :> 60000
   @@ "64" :> 6400
   @@ "648" :> 64800
   @@ "82" :> 8200
   @@ "90" :> 9000
   @@ "BARD" :> -1
   @@ "Bonus" :> -1
   @@ "DeWind" :> -1
   @@ "Enercon" :> -1
   @@ "Gaia" :> -1
   @@ "Micon" :> -1
   @@ "NEG" :> -1
   @@ "NEG Micon" :> -1
   @@ "Nordex" :> -1
   @@ "REF" :> -1
   @@ "REpower" :> -1
   @@ "Senvion" :> -1
   @@ "Siemens" :> -1
   @@ "Siemens Gamesa" :> -1
   @@ "V" :> -1
   @@ "VESTAS" :> -1
   @@ "Vestas" :> -1
   @@ "WTN" :> -1
   @@ "bard" :> -1
   @@ "bonus" :> -1
   @@ "dewind" :> -1
   @@ "enercon" :> -1
   @@ "gaia" :> -1
   @@ "micon" :> -1
   @@ "neg" :> -1
   @@ "neg micon" :> -1
   @@ "norde0" :> -1
   @@ "ref" :> -1
   @@ "repower" :> -1
   @@ "senvion" :> -1
   @@ "siemens" :> -1
   @@ "siemens gamesa" :> -1
   @@ "v" :> -1
   @@ "vestas" :> -1
   @@ "wtn" :> -1 )

XToZeroTable ==
  (   "0.2" :> "0.2"
   @@ "01" :> "01"
   @@ "090" :> "090"
   @@ "1.5" :> "1.5"
   @@ "11" :> "11"
   @@ "133" :> "133"
   @@ "15" :> "15"
   @@ "150" :> "150"
   @@ "1500" :> "1500"
   @@ "152" :> "152"
   @@ "2.0" :> "2.0"
   @@ "2.000" :> "2.000"
   @@ "2000" :> "2000"
   @@ "225" :> "225"
   @@ "250" :> "250"
   @@ "2500" :> "2500"
   @@ "3.0" :> "3.0"
   @@ "3.000" :> "3.000"
   @@ "3.450" :> "3.450"
   @@ "3.5" :> "3.5"
   @@ "30" :> "30"
   @@ "3000" :> "3000"
   @@ "3450" :> "3450"
   @@ "44" :> "44"
   @@ "530" :> "530"
   @@ "6.X" :> "6.0"
   @@ "600" :> "600"
   @@ "64" :> "64"
   @@ "648" :> "648"
   @@ "82" :> "82"
   @@ "90" :> "90"
   @@ "BARD" :> "bard"
   @@ "Bonus" :> "bonus"
   @@ "DeWind" :> "dewind"
   @@ "Enercon" :> "enercon"
   @@ "Gaia" :> "gaia"
   @@ "Micon" :> "micon"
   @@ "NEG" :> "neg"
   @@ "NEG Micon" :> "neg micon"
   @@ "Nordex" :> "norde0"
   @@ "REF" :> "ref"
   @@ "REpower" :> "repower"
   @@ "Senvion" :> "senvion"
   @@ "Siemens" :> "siemens"
   @@ "Siemens Gamesa" :> "siemens gamesa"
   @@ "V" :> "v"
   @@ "VESTAS" :> "vestas"
   @@ "Vestas" :> "vestas"
   @@ "WTN" :> "wtn" )

UpperTable ==
  (   "Acme" :> "ACME"
   @@ "BARD" :> "BARD"
   @@ "Bonus" :> "BONUS"
   @@ "DeWind" :> "DEWIND"
   @@ "Enercon" :> "ENERCON"
   @@ "Gaia" :> "GAIA"
   @@ "Micon" :> "MICON"
   @@ "NEG" :> "NEG"
   @@ "NEG Micon" :> "NEG MICON"
   @@ "Nordex" :> "NORDEX"
   @@ "REF" :> "REF"
   @@ "REpower" :> "REPOWER"
   @@ "Senvion" :> "SENVION"
   @@ "Siemens" :> "SIEMENS"
   @@ "Siemens Gamesa" :> "SIEMENS GAMESA"
   @@ "VESTAS" :> "VESTAS"
   @@ "Vestas" :> "VESTAS"
   @@ "WTN" :> "WTN" )

ParserLowerTable ==
  (   "Acme" :> "acme"
   @@ "BARD" :> "bard"
   @@ "Bonus" :> "bonus"
   @@ "DeWind" :> "dewind"
   @@ "Enercon" :> "enercon"
   @@ "Gaia" :> "gaia"
   @@ "Micon" :> "micon"
   @@ "NEG" :> "neg"
   @@ "NEG Micon" :> "neg micon"
   @@ "Nordex" :> "nordex"
   @@ "REF" :> "ref"
   @@ "REpower" :> "repower"
   @@ "Senvion" :> "senvion"
   @@ "Siemens" :> "siemens"
   @@ "Siemens Gamesa" :> "siemens gamesa"
   @@ "VESTAS" :> "vestas"
   @@ "Vestas" :> "vestas"
   @@ "WTN" :> "wtn" )

TitleTable ==
  (   "Vestas" :> "Vestas"
   @@ "Siemens" :> "Siemens"
   @@ "Siemens Gamesa" :> "Siemens Gamesa"
   @@ "Enercon" :> "Enercon"
   @@ "Senvion" :> "Senvion"
   @@ "REpower" :> "Repower"
   @@ "Nordex" :> "Nordex"
   @@ "Bonus" :> "Bonus"
   @@ "DeWind" :> "Dewind"
   @@ "REF" :> "Ref"
   @@ "Acme" :> "Acme" )

InitialTable ==
  (   "Vestas" :> "V"
   @@ "Siemens" :> "S"
   @@ "Siemens Gamesa" :> "S"
   @@ "Enercon" :> "E"
   @@ "Senvion" :> "S"
   @@ "REpower" :> "R"
   @@ "Nordex" :> "N"
   @@ "Bonus" :> "B"
   @@ "DeWind" :> "D"
   @@ "REF" :> "R"
   @@ "Acme" :> "A" )

DashlessTable ==
  (   "Acme" :> "Acme"
   @@ "BARD" :> "BARD"
   @@ "Bonus" :> "Bonus"
   @@ "DeWind" :> "DeWind"
   @@ "Enercon" :> "Enercon"
   @@ "Gaia" :> "Gaia"
   @@ "Micon" :> "Micon"
   @@ "NEG" :> "NEG"
   @@ "NEG Micon" :> "NEG Micon"
   @@ "Nordex" :> "Nordex"
   @@ "REF" :> "REF"
   @@ "REpower" :> "REpower"
   @@ "Senvion" :> "Senvion"
   @@ "Siemens" :> "Siemens"
   @@ "Siemens Gamesa" :> "Siemens Gamesa"
   @@ "VESTAS" :> "VESTAS"
   @@ "Vestas" :> "Vestas"
   @@ "WTN" :> "WTN" )

Wf101Table ==
  (   "01" :> "Vestas" )

AreaDiameterTable ==
  (   3000 :> 618
   @@ 4400 :> 748
   @@ 8200 :> 1022
   @@ 9000 :> 1070
   @@ 13300 :> 1301
   @@ 15000 :> 1382
   @@ 15200 :> 1391
   @@ 53000 :> 2598
   @@ 150000 :> 4370 )

FirstDashTable ==
  (   "BARD 5.0" :> "BARD 5.0"
   @@ "BARD V" :> "BARD V"
   @@ "Bonus 44/600" :> "Bonus 44/600"
   @@ "Bonus B150/1500" :> "Bonus B150/1500"
   @@ "Bonus B150/2000" :> "Bonus B150/2000"
   @@ "Bonus B150/225" :> "Bonus B150/225"
   @@ "Bonus B150/3000" :> "Bonus B150/3000"
   @@ "Bonus B150/3450" :> "Bonus B150/3450"
   @@ "Bonus B30/1500" :> "Bonus B30/1500"
   @@ "Bonus B30/2000" :> "Bonus B30/2000"
   @@ "Bonus B30/225" :> "Bonus B30/225"
   @@ "Bonus B30/3000" :> "Bonus B30/3000"
   @@ "Bonus B30/3450" :> "Bonus B30/3450"
   @@ "Bonus B82/1500" :> "Bonus B82/1500"
   @@ "Bonus B82/2000" :> "Bonus B82/2000"
   @@ "Bonus B82/225" :> "Bonus B82/225"
   @@ "Bonus B82/3000" :> "Bonus B82/3000"
   @@ "Bonus B82/3450" :> "Bonus B82/3450"
   @@ "Bonus B90/1500" :> "Bonus B90/1500"
   @@ "Bonus B90/2000" :> "Bonus B90/2000"
   @@ "Bonus B90/225" :> "Bonus B90/225"
   @@ "Bonus B90/3000" :> "Bonus B90/3000"
   @@ "Bonus B90/3450" :> "Bonus B90/3450"
   @@ "DeWind D150" :> "DeWind D150"
   @@ "DeWind D150/1500" :> "DeWind D150/1500"
   @@ "DeWind D150/2000" :> "DeWind D150/2000"
   @@ "DeWind D150/225" :> "DeWind D150/225"
   @@ "DeWind D150/3000" :> "DeWind D150/3000"
   @@ "DeWind D150/3450" :> "DeWind D150/3450"
   @@ "DeWind D30" :> "DeWind D30"
   @@ "DeWind D30/1500" :> "DeWind D30/1500"
   @@ "DeWind D30/2000" :> "DeWind D30/2000"
   @@ "DeWind D30/225" :> "DeWind D30/225"
   @@ "DeWind D30/3000" :> "DeWind D30/3000"
   @@ "DeWind D30/3450" :> "DeWind D30/3450"
   @@ "DeWind D82" :> "DeWind D82"
   @@ "DeWind D82/1500" :> "DeWind D82/1500"
   @@ "DeWind D82/2000" :> "DeWind D82/2000"
   @@ "DeWind D82/225" :> "DeWind D82/225"
   @@ "DeWind D82/3000" :> "DeWind D82/3000"
   @@ "DeWind D82/3450" :> "DeWind D82/3450"
   @@ "DeWind D90" :> "DeWind D90"
   @@ "DeWind D90/1500" :> "DeWind D90/1500"
   @@ "DeWind D90/2000" :> "DeWind D90/2000"
   @@ "DeWind D90/225" :> "DeWind D90/225"
   @@ "DeWind D90/3000" :> "DeWind D90/3000"
   @@ "DeWind D90/3450" :> "DeWind D90/3450"
   @@ "Enercon E-150" :> "Enercon E-150"
   @@ "Enercon E-150 / 225" :> "Enercon E-150 / 225"
   @@ "Enercon E-150 2.000" :> "Enercon E-150 2.000"
   @@ "Enercon E-150 3.000" :> "Enercon E-150 3.000"
   @@ "Enercon E-150 3.450" :> "Enercon E-150 3.450"
   @@ "Enercon E-150/15.150" :> "Enercon E-150/15.150"
   @@ "Enercon E-30" :> "Enercon E-30"
   @@ "Enercon E-30 / 225" :> "Enercon E-30 / 225"
   @@ "Enercon E-30 2.000" :> "Enercon E-30 2.000"
   @@ "Enercon E-30 3.000" :> "Enercon E-30 3.000"
   @@ "Enercon E-30 3.450" :> "Enercon E-30 3.450"
   @@ "Enercon E-30/15.30" :> "Enercon E-30/15.30"
   @@ "Enercon E-82" :> "Enercon E-82"
   @@ "Enercon E-82 / 225" :> "Enercon E-82 / 225"
   @@ "Enercon E-82 2.000" :> "Enercon E-82 2.000"
   @@ "Enercon E-82 3.000" :> "Enercon E-82 3.000"
   @@ "Enercon E-82 3.450" :> "Enercon E-82 3.450"
   @@ "Enercon E-82/15.82" :> "Enercon E-82/15.82"
   @@ "Enercon E-90" :> "Enercon E-90"
   @@ "Enercon E-90 / 225" :> "Enercon E-90 / 225"
   @@ "Enercon E-90 2.000" :> "Enercon E-90 2.000"
   @@ "Enercon E-90 3.000" :> "Enercon E-90 3.000"
   @@ "Enercon E-90 3.450" :> "Enercon E-90 3.450"
   @@ "Enercon E-90/15.90" :> "Enercon E-90/15.90"
   @@ "Enercon E82" :> "Enercon E82"
   @@ "FO_09001" :> "FO_09001"
   @@ "Gaia 133-11kW" :> "Gaia 133-11kW"
   @@ "Micon M 530-250" :> "Micon M 530-250"
   @@ "NEG" :> "NEG"
   @@ "NEG Micon NM 1500/64" :> "NEG Micon NM 1500/64"
   @@ "Nordex N150/0.2" :> "Nordex N150/0.2"
   @@ "Nordex N150/1.5" :> "Nordex N150/1.5"
   @@ "Nordex N150/2.0" :> "Nordex N150/2.0"
   @@ "Nordex N150/3.0" :> "Nordex N150/3.0"
   @@ "Nordex N150/3.5" :> "Nordex N150/3.5"
   @@ "Nordex N30/1500" :> "Nordex N30/1500"
   @@ "Nordex N30/2000" :> "Nordex N30/2000"
   @@ "Nordex N30/225" :> "Nordex N30/225"
   @@ "Nordex N30/3000" :> "Nordex N30/3000"
   @@ "Nordex N30/3450" :> "Nordex N30/3450"
   @@ "Nordex N82/1500" :> "Nordex N82/1500"
   @@ "Nordex N82/2000" :> "Nordex N82/2000"
   @@ "Nordex N82/225" :> "Nordex N82/225"
   @@ "Nordex N82/3000" :> "Nordex N82/3000"
   @@ "Nordex N82/3450" :> "Nordex N82/3450"
   @@ "Nordex N90/1500" :> "Nordex N90/1500"
   @@ "Nordex N90/2000" :> "Nordex N90/2000"
   @@ "Nordex N90/225" :> "Nordex N90/225"
   @@ "Nordex N90/2500" :> "Nordex N90/2500"
   @@ "Nordex N90/3000" :> "Nordex N90/3000"
   @@ "Nordex N90/3450" :> "Nordex N90/3450"
   @@ "REF-0.2" :> "REF 0.2"
   @@ "REF-1.5" :> "REF 1.5"
   @@ "REF-2.0" :> "REF 2.0"
   @@ "REF-3.0" :> "REF 3.0"
   @@ "REF-3.5" :> "REF 3.5"
   @@ "REpower 0.2M150" :> "REpower 0.2M150"
   @@ "REpower 0.2M30" :> "REpower 0.2M30"
   @@ "REpower 0.2M82" :> "REpower 0.2M82"
   @@ "REpower 0.2M90" :> "REpower 0.2M90"
   @@ "REpower 1.5M150" :> "REpower 1.5M150"
   @@ "REpower 1.5M30" :> "REpower 1.5M30"
   @@ "REpower 1.5M82" :> "REpower 1.5M82"
   @@ "REpower 1.5M90" :> "REpower 1.5M90"
   @@ "REpower 2.0M150" :> "REpower 2.0M150"
   @@ "REpower 2.0M30" :> "REpower 2.0M30"
   @@ "REpower 2.0M82" :> "REpower 2.0M82"
   @@ "REpower 2.0M90" :> "REpower 2.0M90"
   @@ "REpower 3.0M150" :> "REpower 3.0M150"
   @@ "REpower 3.0M30" :> "REpower 3.0M30"
   @@ "REpower 3.0M82" :> "REpower 3.0M82"
   @@ "REpower 3.0M90" :> "REpower 3.0M90"
   @@ "REpower 3.5M150" :> "REpower 3.5M150"
   @@ "REpower 3.5M30" :> "REpower 3.5M30"
   @@ "REpower 3.5M82" :> "REpower 3.5M82"
   @@ "REpower 3.5M90" :> "REpower 3.5M90"
   @@ "Senvion 0.2M150" :> "Senvion 0.2M150"
   @@ "Senvion 0.2M30" :> "Senvion 0.2M30"
   @@ "Senvion 0.2M82" :> "Senvion 0.2M82"
   @@ "Senvion 0.2M90" :> "Senvion 0.2M90"
   @@ "Senvion 1.5M150" :> "Senvion 1.5M150"
   @@ "Senvion 1.5M30" :> "Senvion 1.5M30"
   @@ "Senvion 1.5M82" :> "Senvion 1.5M82"
   @@ "Senvion 1.5M90" :> "Senvion 1.5M90"
   @@ "Senvion 2.0M150" :> "Senvion 2.0M150"
   @@ "Senvion 2.0M30" :> "Senvion 2.0M30"
   @@ "Senvion 2.0M82" :> "Senvion 2.0M82"
   @@ "Senvion 2.0M90" :> "Senvion 2.0M90"
   @@ "Senvion 3.0M150" :> "Senvion 3.0M150"
   @@ "Senvion 3.0M30" :> "Senvion 3.0M30"
   @@ "Senvion 3.0M82" :> "Senvion 3.0M82"
   @@ "Senvion 3.0M90" :> "Senvion 3.0M90"
   @@ "Senvion 3.5M150" :> "Senvion 3.5M150"
   @@ "Senvion 3.5M30" :> "Senvion 3.5M30"
   @@ "Senvion 3.5M82" :> "Senvion 3.5M82"
   @@ "Senvion 3.5M90" :> "Senvion 3.5M90"
   @@ "Senvion 6.2" :> "Senvion 6.2"
   @@ "Senvion 6.XM152" :> "Senvion 6.XM152"
   @@ "Siemens Gamesa SG-0.2-150" :> "Siemens Gamesa SG-0.2-150"
   @@ "Siemens Gamesa SG-0.2-30" :> "Siemens Gamesa SG-0.2-30"
   @@ "Siemens Gamesa SG-0.2-82" :> "Siemens Gamesa SG-0.2-82"
   @@ "Siemens Gamesa SG-0.2-90" :> "Siemens Gamesa SG-0.2-90"
   @@ "Siemens Gamesa SG-1.5-150" :> "Siemens Gamesa SG-1.5-150"
   @@ "Siemens Gamesa SG-1.5-30" :> "Siemens Gamesa SG-1.5-30"
   @@ "Siemens Gamesa SG-1.5-82" :> "Siemens Gamesa SG-1.5-82"
   @@ "Siemens Gamesa SG-1.5-90" :> "Siemens Gamesa SG-1.5-90"
   @@ "Siemens Gamesa SG-2.0-150" :> "Siemens Gamesa SG-2.0-150"
   @@ "Siemens Gamesa SG-2.0-30" :> "Siemens Gamesa SG-2.0-30"
   @@ "Siemens Gamesa SG-2.0-82" :> "Siemens Gamesa SG-2.0-82"
   @@ "Siemens Gamesa SG-2.0-90" :> "Siemens Gamesa SG-2.0-90"
   @@ "Siemens Gamesa SG-3.0-150" :> "Siemens Gamesa SG-3.0-150"
   @@ "Siemens Gamesa SG-3.0-30" :> "Siemens Gamesa SG-3.0-30"
   @@ "Siemens Gamesa SG-3.0-82" :> "Siemens Gamesa SG-3.0-82"
   @@ "Siemens Gamesa SG-3.0-90" :> "Siemens Gamesa SG-3.0-90"
   @@ "Siemens Gamesa SG-3.5-150" :> "Siemens Gamesa SG-3.5-150"
   @@ "Siemens Gamesa SG-3.5-30" :> "Siemens Gamesa SG-3.5-30"
   @@ "Siemens Gamesa SG-3.5-82" :> "Siemens Gamesa SG-3.5-82"
   @@ "Siemens Gamesa SG-3.5-90" :> "Siemens Gamesa SG-3.5-90"
   @@ "Siemens SWT-0.2" :> "Siemens SWT-0.2"
   @@ "Siemens SWT-0.2-150" :> "Siemens SWT-0.2-150"
   @@ "Siemens SWT-0.2-30" :> "Siemens SWT-0.2-30"
   @@ "Siemens SWT-0.2-82" :> "Siemens SWT-0.2-82"
   @@ "Siemens SWT-0.2-90" :> "Siemens SWT-0.2-90"
   @@ "Siemens SWT-1.5" :> "Siemens SWT-1.5"
   @@ "Siemens SWT-1.5-150" :> "Siemens SWT-1.5-150"
   @@ "Siemens SWT-1.5-30" :> "Siemens SWT-1.5-30"
   @@ "Siemens SWT-1.5-82" :> "Siemens SWT-1.5-82"
   @@ "Siemens SWT-1.5-90" :> "Siemens SWT-1.5-90"
   @@ "Siemens SWT-2.0" :> "Siemens SWT-2.0"
   @@ "Siemens SWT-2.0-150" :> "Siemens SWT-2.0-150"
   @@ "Siemens SWT-2.0-30" :> "Siemens SWT-2.0-30"
   @@ "Siemens SWT-2.0-82" :> "Siemens SWT-2.0-82"
   @@ "Siemens SWT-2.0-90" :> "Siemens SWT-2.0-90"
   @@ "Siemens SWT-3.0" :> "Siemens SWT-3.0"
   @@ "Siemens SWT-3.0-150" :> "Siemens SWT-3.0-150"
   @@ "Siemens SWT-3.0-30" :> "Siemens SWT-3.0-30"
   @@ "Siemens SWT-3.0-82" :> "Siemens SWT-3.0-82"
   @@ "Siemens SWT-3.0-90" :> "Siemens SWT-3.0-90"
   @@ "Siemens SWT-3.5" :> "Siemens SWT-3.5"
   @@ "Siemens SWT-3.5-150" :> "Siemens SWT-3.5-150"
   @@ "Siemens SWT-3.5-30" :> "Siemens SWT-3.5-30"
   @@ "Siemens SWT-3.5-82" :> "Siemens SWT-3.5-82"
   @@ "Siemens SWT-3.5-90" :> "Siemens SWT-3.5-90"
   @@ "VESTAS V90" :> "VESTAS V90"
   @@ "VESTAS V90-3.0" :> "VESTAS V90-3.0"
   @@ "Vestas V150-1.5" :> "Vestas V150-1.5"
   @@ "Vestas V150-2.0" :> "Vestas V150-2.0"
   @@ "Vestas V150-225" :> "Vestas V150-225"
   @@ "Vestas V150-3.0" :> "Vestas V150-3.0"
   @@ "Vestas V150-3.5" :> "Vestas V150-3.5"
   @@ "Vestas V30-1.5" :> "Vestas V30-1.5"
   @@ "Vestas V30-2.0" :> "Vestas V30-2.0"
   @@ "Vestas V30-225" :> "Vestas V30-225"
   @@ "Vestas V30-3.0" :> "Vestas V30-3.0"
   @@ "Vestas V30-3.5" :> "Vestas V30-3.5"
   @@ "Vestas V82-1.5" :> "Vestas V82-1.5"
   @@ "Vestas V82-2.0" :> "Vestas V82-2.0"
   @@ "Vestas V82-225" :> "Vestas V82-225"
   @@ "Vestas V82-3.0" :> "Vestas V82-3.0"
   @@ "Vestas V82-3.5" :> "Vestas V82-3.5"
   @@ "Vestas V90" :> "Vestas V90"
   @@ "Vestas V90 - 3.0" :> "Vestas V90 - 3.0"
   @@ "Vestas V90-1.5" :> "Vestas V90-1.5"
   @@ "Vestas V90-2.0" :> "Vestas V90-2.0"
   @@ "Vestas V90-225" :> "Vestas V90-225"
   @@ "Vestas V90-3.0" :> "Vestas V90-3.0"
   @@ "Vestas V90-3.5" :> "Vestas V90-3.5"
   @@ "WTN WTN 648" :> "WTN WTN 648" )

OneDecimalOfThousandth ==
  (   225 :> "0.2"
   @@ 1500 :> "1.5"
   @@ 2000 :> "2.0"
   @@ 3000 :> "3.0"
   @@ 3450 :> "3.5" )

ThreeDecimalsOfThousandth ==
  (   225 :> "0.225"
   @@ 1500 :> "1.500"
   @@ 2000 :> "2.000"
   @@ 3000 :> "3.000"
   @@ 3450 :> "3.450" )

WholeOfHundredth ==
  (   225 :> "2"
   @@ 1500 :> "15"
   @@ 2000 :> "20"
   @@ 3000 :> "30"
   @@ 3450 :> "34" )

(***************************************************************************)
(* ModelNameParser.parse_model_name, rule by rule.  Numbers are counted in *)
(* hundredths (90.0 is 9000) and a number that is None is 0; the names     *)
(* parsed below hold no number that is itself zero.                        *)
(***************************************************************************)
\* float(text), in hundredths; negative when float() raises
Float(text) == IF text \in DOMAIN FloatTable THEN FloatTable[text] ELSE 0 - 1

\* the match of rule i on model_name, if there is one
Hits(i, model_name) == { h \in SearchHits : h.rule = i /\ h.name = model_name }

Search(i, model_name) == CHOOSE h \in Hits(i, model_name) : TRUE

\* lines 153-176: the manufacturer group, else the manufacturer of the
\* manufacturer_code group; the loop of lines 163-174 unpacks a pattern
\* string into two names, raises and is suppressed
MatchManufacturer(h) ==
  IF h.manufacturer \notin {None, ""} THEN h.manufacturer
  ELSE IF h.manufacturer_code # None THEN Wf101Table[h.manufacturer_code]
  ELSE h.manufacturer

\* lines 179-180: the dash-named manufacturers
CleanManufacturer(maker) ==
  IF maker \in {"NEG-Micon", "AN-Bonus"} THEN DashlessTable[maker]
  ELSE maker

\* the values of the loop body before the rule's groups are read
Matched(h) ==
  [ model_designation |-> h.group0,
    manufacturer |-> CleanManufacturer(MatchManufacturer(h)),
    diameter |-> 0, power |-> 0, known_unit |-> None, power_text |-> None ]

\* lines 182-200: the power group, with the roman five of BARD and the
\* rounded six of Senvion; power_text is a power that float() refused
ReadPower(st, h) ==
  IF h.power = None THEN st
  ELSE IF st.manufacturer = "BARD" /\ h.power = "V"
  THEN [st EXCEPT !.power = 500000, !.known_unit = "kW",
                  !.model_designation = st.manufacturer \o " 5.0"]
  ELSE IF st.manufacturer = "Senvion" /\ Float(h.power) = 600
  THEN [st EXCEPT !.power = 620000, !.known_unit = "kW",
                  !.model_designation = st.manufacturer \o " 6.2"]
  ELSE IF Float(h.power) < 0 THEN [st EXCEPT !.power_text = h.power]
  ELSE [st EXCEPT !.power = Float(h.power)]

\* lines 202-207
ReadPower2(st, h) ==
  IF Float(h.power2) > 0 THEN [st EXCEPT !.power = Float(h.power2), !.power_text = None]
  ELSE st

\* lines 209-233: a power in units of 100 W (factor 100) or 10 W (factor 10)
ReadPowerUnits(st, text, factor) ==
  IF Float(text) >= 0 /\ st.power = 0 /\ st.power_text = None
  THEN [st EXCEPT !.power = IF Float(text) < 10000 THEN Float(text) * factor ELSE Float(text),
                  !.known_unit = "kW"]
  ELSE st

\* lines 235-239
ReadPowerMW(st, h) ==
  IF Float(h.powerMW) >= 0
  THEN [st EXCEPT !.power = Float(h.powerMW) * 1000, !.power_text = None, !.known_unit = "kW"]
  ELSE st

\* lines 241-245
ReadPowerKW(st, h) ==
  IF Float(h.powerKW) >= 0
  THEN [st EXCEPT !.power = Float(h.powerKW), !.power_text = None, !.known_unit = "kW"]
  ELSE st

\* lines 247-261: the diameter group; Micon names the swept area
ReadDiameter(st, h) ==
  IF h.diameter = "Twelve" THEN [st EXCEPT !.diameter = 1200]
  ELSE IF Float(h.diameter) < 0 THEN st
  ELSE IF st.manufacturer \notin {None, ""} /\ UpperTable[st.manufacturer] = "MICON"
  THEN [st EXCEPT !.diameter = AreaDiameterTable[Float(h.diameter)]]
  ELSE [st EXCEPT !.diameter = Float(h.diameter)]

\* lines 263-268
ReadDiameter2(st, h) ==
  IF Float(h.diameter2) > 0 THEN [st EXCEPT !.diameter = Float(h.diameter2)] ELSE st

\* lines 270-276
ReadDiameterDm(st, h) ==
  IF Float(h.diameterDm) > 0 /\ st.diameter = 0
  THEN [st EXCEPT !.diameter = 10 * Float(h.diameterDm)]
  ELSE st

\* lines 278-285
ReadSweptArea(st, h) ==
  IF Float(h.swept_area) >= 0 /\ st.diameter = 0
  THEN [st EXCEPT !.diameter = AreaDiameterTable[Float(h.swept_area)]]
  ELSE st

\* lines 287-292
ReadRadius(st, h) ==
  IF Float(h.radius) > 0 /\ st.diameter = 0
  THEN [st EXCEPT !.diameter = 2 * Float(h.radius)]
  ELSE st

\* manufacturer.upper() of a manufacturer that is not None
UpperOf(st) == IF st.manufacturer = None THEN None ELSE UpperTable[st.manufacturer]

\* lines 294-301
WindWorld(st) ==
  IF /\ st.diameter # 0
     /\ st.power # 0 \/ st.power_text # None
     /\ UpperOf(st) = "WIND WORLD"
     /\ st.diameter > 100000
  THEN [st EXCEPT !.diameter = st.diameter \div 100]
  ELSE st

\* lines 303-312: diameter and power swapped
NegMicon(st) ==
  IF /\ st.diameter # 0
     /\ st.power # 0
     /\ UpperOf(st) \in {"NEG MICON", "NEG-MICON"}
     /\ st.diameter > st.power
  THEN [st EXCEPT !.diameter = st.power, !.power = st.diameter]
  ELSE st

\* lines 314-325: divmod(power, 100)
WindTechnikNord(st) ==
  IF /\ st.power # 0
     /\ st.diameter = 0
     /\ UpperOf(st) \in {"WTN Wind TechnikNord", "Wind TechnikNord", "WindTechnikNord", "WTN"}
     /\ st.power % 1000 # 0
  THEN [st EXCEPT !.power = (st.power \div 10000) * 10000, !.diameter = st.power % 10000]
  ELSE st

\* lines 327-332
ReadKnownUnit(st, h) ==
  IF st.known_unit = None /\ h.known_unit \notin {None, ""}
  THEN [st EXCEPT !.known_unit = "kW"]
  ELSE st

\* lines 334-345: the power in kW; a power float() refuses stays a text
ConvertPower(st) ==
  IF st.power_text # None
  THEN IF Float(XToZeroTable[st.power_text]) < 0 THEN st
       ELSE [st EXCEPT !.power_text = None,
                       !.power = PowerToKw(Float(XToZeroTable[st.power_text]),
                                           st.known_unit, st.diameter \div 100, 100)]
  ELSE IF st.power # 0
  THEN [st EXCEPT !.power = PowerToKw(st.power, st.known_unit, st.diameter \div 100, 100)]
  ELSE st

\* lines 147-347: the body of the loop for the rule that matched
ReadGroups(h) ==
  ConvertPower(ReadKnownUnit(WindTechnikNord(NegMicon(WindWorld(
    ReadRadius(ReadSweptArea(ReadDiameterDm(ReadDiameter2(ReadDiameter(
      ReadPowerKW(ReadPowerMW(ReadPowerUnits(ReadPowerUnits(ReadPower2(ReadPower(
        Matched(h), h), h), h.powerOW, 100), h.powerDW, 10), h), h),
      h), h), h), h), h)))), h))

\* lines 351-358 and 360-368: the returned dict
ParseResult(model_name, st, manufacturer_pattern) ==
  [ model_designation |-> IF st.model_designation = None THEN None
                          ELSE FirstDashTable[st.model_designation],
    manufacturer |-> st.manufacturer,
    manufacturer_pattern |-> manufacturer_pattern,
    diameter |-> st.diameter,
    power |-> st.power,
    is_known_manufacturer |-> manufacturer_pattern # None,
    power_text |-> st.power_text,
    model_name |-> model_name ]

\* lines 131-138: the result when no rule matches
Unmatched ==
  [ model_designation |-> None, manufacturer |-> None,
    diameter |-> 0, power |-> 0, known_unit |-> None, power_text |-> None ]

\* a loop without the break of line 347: the last matching rule is the one
\* whose values are returned
ParseLoopWithoutBreak(model_name, i) ==
  IF \A j \in i..NumRules : Hits(j, model_name) = {}
  THEN ParseResult(model_name, Unmatched, None)
  ELSE ParseResult(model_name,
         ReadGroups(Search(CHOOSE j \in i..NumRules :
                             /\ Hits(j, model_name) # {}
                             /\ \A k \in (j + 1)..NumRules : Hits(k, model_name) = {},
                           model_name)),
         RuleManufacturerPattern[CHOOSE j \in i..NumRules :
                             /\ Hits(j, model_name) # {}
                             /\ \A k \in (j + 1)..NumRules : Hits(k, model_name) = {}])

\* lines 141-347: the rules are tried from rule i on, in the order of the
\* list, and the loop is left at the first match
RECURSIVE ParseLoop(_, _)
ParseLoop(model_name, i) ==
  IF i > NumRules THEN ParseResult(model_name, Unmatched, None)
  ELSE IF Hits(i, model_name) # {}
  THEN ParseResult(model_name, ReadGroups(Search(i, model_name)), RuleManufacturerPattern[i])
  ELSE ParseLoop(model_name, i + 1)

\* lines 30-37: repeated blanks, commas, and the manufacturer prefix
Normalize(model_name) == ParserPrefixTable[CleanTable[model_name]]

\* parse_model_name(model_name)
ParseWithRules(model_name) == ParseLoop(Normalize(model_name), 1)

(***************************************************************************)
(* ModelNameBuilder.build_model_designation                                *)
(***************************************************************************)
\* lines 8-11
BuildVestas(maker, diameter, power) ==
  IF power < 1000
  THEN maker \o " V" \o ToString(diameter) \o "-" \o ToString(power)
  ELSE maker \o " V" \o ToString(diameter) \o "-" \o OneDecimalOfThousandth[power]

\* lines 19-24
BuildEnercon(maker, diameter, power) ==
  IF power < 500
  THEN maker \o " E-" \o ToString(diameter) \o " / " \o ToString(power)
  ELSE IF power < 2000
  THEN maker \o " E-" \o ToString(diameter) \o "/" \o WholeOfHundredth[power]
         \o "." \o ToString(diameter)
  ELSE maker \o " E-" \o ToString(diameter) \o " " \o ThreeDecimalsOfThousandth[power]

\* lines 29-32
BuildNordex(maker, diameter, power) ==
  IF diameter < 140
  THEN maker \o " N" \o ToString(diameter) \o "/" \o ToString(power)
  ELSE maker \o " N" \o ToString(diameter) \o "/" \o OneDecimalOfThousandth[power]

\* build_model_designation(maker, diameter, power) for whole numbers
build_model_designation(maker, diameter, power) ==
  IF TitleTable[maker] = "Vestas" THEN BuildVestas(maker, diameter, power)
  ELSE IF TitleTable[maker] = "Siemens"
  THEN maker \o " SWT-" \o OneDecimalOfThousandth[power] \o "-" \o ToString(diameter)
  ELSE IF TitleTable[maker] = "Siemens Gamesa"
  THEN maker \o " SG-" \o OneDecimalOfThousandth[power] \o "-" \o ToString(diameter)
  ELSE IF TitleTable[maker] = "Enercon" THEN BuildEnercon(maker, diameter, power)
  ELSE IF TitleTable[maker] \in {"Senvion", "Repower"}
  THEN maker \o " " \o OneDecimalOfThousandth[power] \o "M" \o ToString(diameter)
  ELSE IF TitleTable[maker] = "Nordex" THEN BuildNordex(maker, diameter, power)
  ELSE IF TitleTable[maker] \in {"Bonus", "Dewind"}
  THEN maker \o " " \o InitialTable[maker] \o ToString(diameter)
         \o "/" \o ToString(power)
  ELSE IF TitleTable[maker] = "Ref"
  THEN maker \o "-" \o OneDecimalOfThousandth[power]
  ELSE None

(***************************************************************************)
(* parse_model_name and build_model_designation as functions: one call of  *)
(* either per behaviour.                                                   *)
(***************************************************************************)
ParserNames == DOMAIN CleanTable

BuilderFamilies == DOMAIN TitleTable

BuilderDiameters == { 30, 82, 90, 150 }

BuilderPowers == { 225, 1500, 2000, 3000, 3450 }

\* parse_model_name(model_name), called once
ParseCall(model_name) ==
  /\ call_args = NoArgs
  /\ call_args' = [model_name |-> model_name]
  /\ call_result' = ParseWithRules(model_name)
  /\ UNCHANGED << config, writers, loader, match_cache, counters, turbine_counter,
                  turbine, stored, locals, returned, history, pc >>

\* str(model_name) of line 31
Str(model_name) == model_name

\* parse_model_name(build_model_designation(manufacturer, diameter, power)),
\* called once
BuildCall(family, diameter, power) ==
  /\ call_args = NoArgs
  /\ call_args' = [manufacturer |-> family, diameter |-> diameter, power |-> power]
  /\ call_result' =
       [ built |-> build_model_designation(family, diameter, power),
         parsed |-> ParseWithRules(Str(build_model_designation(family, diameter, power))) ]
  /\ UNCHANGED << config, writers, loader, match_cache, counters, turbine_counter,
                  turbine, stored, locals, returned, history, pc >>

ParserNext ==
  \/ \E model_name \in ParserNames : ParseCall(model_name)
  \/ \E family \in BuilderFamilies, diameter \in BuilderDiameters, power \in BuilderPowers :
       BuildCall(family, diameter, power)

ParserSpec == CallInit /\ [][ParserNext]_vars

\* a name was parsed
NameParsed(model_name) == call_args = [model_name |-> model_name]

\* C21: parsing "VESTAS V90 3.0MW" yields the canonical manufacturer
\* "Vestas", the diameter 90 and the power 3000 kW
ExampleNameParsedInFull ==
  NameParsed("VESTAS V90 3.0MW") =>
    /\ call_result.manufacturer = "Vestas"
    /\ call_result.diameter = 9000
    /\ call_result.power = 300000

\* a designation was built and parsed
Built == "manufacturer" \in DOMAIN call_args /\ call_result.built # None

\* C22: for every supported manufacturer family, diameter and power, parsing
\* the built designation recovers the manufacturer case-insensitively, a
\* diameter within 5 m and a power within the power tolerance of enrichment
\* (a relative difference below power / 750 / 100)
BuiltNameParsesBack ==
  Built =>
    /\ call_result.parsed.manufacturer # None
    /\ ParserLowerTable[call_result.parsed.manufacturer]
         = ParserLowerTable[call_args.manufacturer]
    /\ Abs(call_result.parsed.diameter - 100 * call_args.diameter) <= 500
    /\ call_result.parsed.power # 0
    /\ Abs(call_result.parsed.power - 100 * call_args.power)
         <= (call_args.power * call_args.power - 1) \div 750

\* the rules that match a normalized name
MatchingRules(model_name) == { i \in 1..NumRules : Hits(i, model_name) # {} }

\* the first of the rules that match
FirstRule(model_name) ==
  CHOOSE i \in MatchingRules(model_name) : \A j \in MatchingRules(model_name) : i <= j

\* C23: the rules are tried in the order of the table, anchored at the start
\* of the name, and every field comes from the first rule that matches; when
\* no rule matches every field is none and is_known_manufacturer is false
FirstMatchingRuleWins ==
  ("model_name" \in DOMAIN call_args) =>
    IF MatchingRules(Normalize(call_args.model_name)) = {}
    THEN /\ call_result.model_designation = None
         /\ call_result.manufacturer = None
         /\ call_result.manufacturer_pattern = None
         /\ call_result.diameter = 0
         /\ call_result.power = 0
         /\ call_result.power_text = None
         /\ ~call_result.is_known_manufacturer
    ELSE call_result =
           ParseResult(Normalize(call_args.model_name),
                       ReadGroups(Search(FirstRule(Normalize(call_args.model_name)),
                                         Normalize(call_args.model_name))),
                       RuleManufacturerPattern[FirstRule(Normalize(call_args.model_name))])

\* a name that the NEG Micon rule and the later Nordtank rule both match was
\* parsed by the NEG Micon rule
ParsedByEarlierOfTwoRules ==
  /\ NameParsed("NEG Micon NM 1500/64")
  /\ MatchingRules("NEG Micon NM 1500/64") = {22, 23}
  /\ call_result.manufacturer = "NEG Micon"
  /\ call_result.diameter = 6400
  /\ call_result.power = 150000

(***************************************************************************)
(* The tolerance tiers of ProbabilisticMapper.map                          *)
(***************************************************************************)
\* the tiers, of the five tolerances 0, 1, 3, 5 and 15 m, at which some
\* common model with a diameter in its name is within the tolerance
OpenTiers ==
  { n \in 1..5 : diameter_models(GuidingDiameter, << 0, 1, 3, 5, 15 >>[n]) # << >> }

\* the first of them
FirstTier == CHOOSE n \in OpenTiers : \A k \in OpenTiers : n <= k

\* the models of the first of them
FirstTierModels == diameter_models(GuidingDiameter, << 0, 1, 3, 5, 15 >>[FirstTier])

\* the regional selection of lines 148-252
RegionalPick ==
  IF regional_models(call_args.lat, call_args.lon) = << >>
  THEN common_models[(hash_value(call_args.turbine_type, call_args.lat, call_args.lon)
                       % Len(common_models)) + 1]
  ELSE regional_models(call_args.lat, call_args.lon)
         [(hash_value(call_args.turbine_type, call_args.lat, call_args.lon)
            % Len(regional_models(call_args.lat, call_args.lon))) + 1]

\* C24: with a diameter known (given, or read from a 4-5 digit type whose
\* leading digits lie in 40..150) map tries the tolerances 0, 1, 3, 5, 15 m in
\* that order and returns, from the first tolerance with a non-empty set of
\* models within it, the model at position hash mod the size of that set; it
\* goes on to the regional selection only when all five sets are empty
TolerancesTriedInOrder ==
  ("turbine_type" \in DOMAIN call_args /\ GuidingDiameter # 0) =>
    IF OpenTiers = {} THEN call_result = RegionalPick
    ELSE call_result =
           FirstTierModels[(hash_value(call_args.turbine_type, call_args.lat, call_args.lon)
                             % Len(FirstTierModels)) + 1]

\* a call with diameter 95, which no model has within 1 m, got the model
\* within 3 m
PickedFromThirdTier ==
  /\ "turbine_type" \in DOMAIN call_args
  /\ first_part(call_args.turbine_type) = 0
  /\ call_args.diameter = 95
  /\ OpenTiers = {3, 4, 5}
  /\ model_diameter(call_result) = 92

(***************************************************************************)
(* DimensionLocationMapper.map as a function: one call per behaviour       *)
(***************************************************************************)
DimensionDiameters == { 0, 82, 90, 100, 115, 126, 164, 200 }

DimensionHeights == { 0, 80, 99, 140 }

DimensionPowers == { 0, 2000, 3000, 8000 }

DimensionCountries == { None, "DE", "DK", "NL" }

\* map(turbine_props), called once
DimensionCall(turbine_props) ==
  /\ call_args = NoArgs
  /\ call_args' = turbine_props
  /\ call_result' = DimensionLocationMapper_map(turbine_props)
  /\ UNCHANGED << config, writers, loader, match_cache, counters, turbine_counter,
                  turbine, stored, locals, returned, history, pc >>

DimensionNext ==
  \E d \in DimensionDiameters, h \in DimensionHeights, p \in DimensionPowers,
     c \in DimensionCountries, o \in BOOLEAN :
    DimensionCall([diameter |-> d, country |-> c, is_offshore |-> o,
                   hub_height |-> h, power_rating |-> p])

DimensionSpec == CallInit /\ [][DimensionNext]_vars

\* the candidates of the diameter of the call
Candidates ==
  { build_dimension_matches(call_args.diameter)[i] :
      i \in DOMAIN build_dimension_matches(call_args.diameter) }

\* base confidence 10 and the additive adjustments of the candidate: height
\* (+5 within 5 m, +2 within 15 m, -3 beyond 30 m), power (+5 within 0.3 MW,
\* +2 within 0.8 MW, -3 beyond 2 MW), offshore (+5 for V164 and SWT-154, -2
\* for E101 and E82) or onshore (-3 for V164 and SWT-154), country (+2 for an
\* E model in Germany, for a V model in Denmark)
Adjusted(model) ==
  10
  + (IF call_args.hub_height = 0 THEN 0
     ELSE IF Abs(10 * call_args.hub_height - expected_height[model]) < 50 THEN 5
     ELSE IF Abs(10 * call_args.hub_height - expected_height[model]) < 150 THEN 2
     ELSE IF Abs(10 * call_args.hub_height - expected_height[model]) > 300 THEN 0 - 3
     ELSE 0)
  + (IF call_args.power_rating = 0 THEN 0
     ELSE IF Abs(call_args.power_rating - expected_power[model]) < 300 THEN 5
     ELSE IF Abs(call_args.power_rating - expected_power[model]) < 800 THEN 2
     ELSE IF Abs(call_args.power_rating - expected_power[model]) > 2000 THEN 0 - 3
     ELSE 0)
  + (IF call_args.is_offshore /\ model \in {"V164", "SWT-154"} THEN 5
     ELSE IF call_args.is_offshore /\ model \in {"E101", "E82"} THEN 0 - 2
     ELSE IF ~call_args.is_offshore /\ model \in {"V164", "SWT-154"} THEN 0 - 3
     ELSE 0)
  + (IF call_args.country = "DE" /\ model \in {"E82", "E101", "E115", "E126", "E138"} THEN 2
     ELSE IF call_args.country = "DK"
             /\ model \in {"V90", "V100", "V112", "V117", "V126", "V164"} THEN 2
     ELSE 0)

\* C25: DimensionLocationMapper.map returns a candidate of the highest
\* confidence, after the additive height, power, offshore/onshore and country
\* adjustments to the base confidence 10, and only if that confidence is at
\* least 8; it returns none when the best confidence is below 8 and when the
\* diameter falls in no band
HighestConfidenceAtLeast8 ==
  ("hub_height" \in DOMAIN call_args) =>
    IF \E model \in Candidates : Adjusted(model) >= 8
    THEN /\ call_result \in Candidates
         /\ \A model \in Candidates : Adjusted(model) <= Adjusted(call_result)
    ELSE call_result = None

\* of the two candidates of a 100 m rotor in Germany the second, E101, was
\* returned, with the higher confidence
SecondCandidateReturned ==
  /\ "hub_height" \in DOMAIN call_args
  /\ call_args.diameter = 100
  /\ build_dimension_matches(100) = << "V100", "E101" >>
  /\ Adjusted("V100") < Adjusted("E101")
  /\ call_result = "E101"

(***************************************************************************)
(* by_turbine_type, lines 98-145: the row taken from the hits of a field   *)
(***************************************************************************)
\* the sort fields with a precomputed length
SortFields == DOMAIN precomputed_length_fields

\* lines 98-145 on the hits of a field, once
ChooseCall(turbine_specs, sort_field) ==
  /\ call_args = NoArgs
  /\ WithDesignation(turbine_specs) # {}
  /\ call_args' = [turbine_specs |-> turbine_specs, sort_field |-> sort_field]
  /\ \E i \in TopRows(PreferManufacturerData(WithDesignation(turbine_specs)), sort_field) :
       call_result' = i
  /\ UNCHANGED << config, writers, loader, match_cache, counters, turbine_counter,
                  turbine, stored, locals, returned, history, pc >>

ChoiceNext ==
  \E turbine_specs \in SUBSET FullIndex, sort_field \in SortFields :
    ChooseCall(turbine_specs, sort_field)

ChoiceSpec == CallInit /\ [][ChoiceNext]_vars

\* the hits the choice is made among: those with manufacturer-supplied
\* curves if there are any, else those with a non-empty designation
Preferred ==
  IF \E i \in call_args.turbine_specs :
       Row(i).model_designation # "" /\ Row(i).is_manufacturer_data
  THEN { i \in call_args.turbine_specs :
           Row(i).model_designation # "" /\ Row(i).is_manufacturer_data }
  ELSE { i \in call_args.turbine_specs : Row(i).model_designation # "" }

\* the richness of a row: the length of its wind-speed array, or of its
\* sort field
Richness(i) ==
  IF call_args.sort_field = "wind_speeds" THEN Row(i).wind_speeds_length
  ELSE Row(i).model_designation_length

DeriverTypes ==
  { None, "T1", "T2", "E82", "T4", "T6", "T9", "FO_09001", "V52", "Vestas T1",
    "Vestas V90-3.0", "Vestas V80-2.0", "Enercon E82" }

DeriverFields ==
  { default_fields,
    << "model_designation", "type_id", "type_code", "turbine_model" >>,
    << "model_designation" >>,
    << "type_code", "turbine_model" >> }

\* row_data: nothing, or the dimensions of a turbine record
DeriverRowData ==
  { NoData,
    [diameter |-> 90, hub_height |-> 80, power_rating |-> 3000],
    [diameter |-> 82, hub_height |-> 0, power_rating |-> 0],
    [diameter |-> 0, hub_height |-> 0, power_rating |-> 3450] }

\* by_turbine_type(turbine_type, fields, row_data=row_data, filtered=filtered),
\* called once
DeriveCall(type, fields, row_data, filtered) ==
  /\ call_args = NoArgs
  /\ call_args' = [turbine_type |-> type, fields |-> fields, row_data |-> row_data,
                   filtered |-> filtered]
  /\ call_result' = by_turbine_type(type, fields, None, row_data, filtered)
  /\ UNCHANGED << config, writers, loader, match_cache, counters, turbine_counter,
                  turbine, stored, locals, returned, history, pc >>

DeriverNext ==
  \E type \in DeriverTypes, fields \in DeriverFields, row_data \in DeriverRowData,
     filtered \in BOOLEAN :
    DeriveCall(type, fields, row_data, filtered)

DeriverSpec == CallInit /\ [][DeriverNext]_vars

\* by_turbine_type was called
DeriverCalled == "fields" \in DOMAIN call_args

\* the hits of the n-th field of the call
HitsOfField(n) ==
  MatchField(get_specs_dataframe(call_args.filtered), call_args.fields[n],
             call_args.turbine_type)

\* the row has a designation
Designated(i) == Row(i).model_designation \notin {None, ""}

\* some field has hits and no field has a hit with a designation
OnlyHitsWithoutDesignation ==
  /\ \E n \in DOMAIN call_args.fields : HitsOfField(n) # {}
  /\ \A n \in DOMAIN call_args.fields : \A i \in HitsOfField(n) : ~Designated(i)

\* the lookups of the values of the hits under the other fields
LinkLookups ==
  { by_turbine_type(Row(i)[call_args.fields[m]], << call_args.fields[m] >>, None,
                    NoData, call_args.filtered) :
      <<n, i, m>> \in
        { t \in (DOMAIN call_args.fields) \X FullIndex \X (DOMAIN call_args.fields) :
            /\ t[2] \in HitsOfField(t[1])
            /\ t[3] # t[1]
            /\ Row(t[2])[call_args.fields[t[3]]] \notin {None, ""} } }

\* those that resolve
ResolvingLookups ==
  { found \in LinkLookups : ~found.raised /\ found.model_designation \notin {None, ""} }

\* C27: when a lookup field yields hits none of which has a non-empty
\* designation, by_turbine_type remembers them as links and, after all fields
\* are exhausted, looks up each hit's values in the other fields and returns
\* the designation and line index of the first lookup that resolves, without
\* raising; when none resolves it goes on to the fallback enrichment
HitsWithoutDesignationFollowed ==
  (DeriverCalled /\ OnlyHitsWithoutDesignation) =>
    /\ ~call_result.raised
    /\ IF ResolvingLookups # {}
       THEN \E found \in ResolvingLookups :
              /\ call_result.model_designation = found.model_designation
              /\ call_result.matched_line_index = found.matched_line_index
       ELSE call_result =
              FallbackExact(call_args.turbine_type, call_args.row_data, call_args.filtered,
                            enrich_model_designation(call_args.turbine_type,
                              call_args.row_data, TRUE, call_args.filtered))

\* C30: whenever by_turbine_type returns a designation that is not none, by
\* a direct hit, by enrichment and a further lookup, or by the fallback
\* enrichment, the returned line index is not none, lies in the full catalog,
\* and the entry at that index has exactly the returned designation
ReturnedIndexHoldsDesignation ==
  (DeriverCalled /\ ~call_result.raised /\ call_result.model_designation # None) =>
    /\ call_result.matched_line_index # NoneIndex
    /\ call_result.matched_line_index \in FullIndex
    /\ Row(call_result.matched_line_index).model_designation
         = call_result.model_designation

\* the type code E82 hit the entry without power data at line index 2, and
\* the entry returned is the enriched one at line index 3
EnrichedEntryReturned ==
  /\ DeriverCalled
  /\ call_args.turbine_type = "E82"
  /\ call_args.fields = default_fields
  /\ HitsOfField(2) = {2}
  /\ call_result.model_designation = "Enercon E-82 2.000"
  /\ call_result.matched_line_index = 3

(***************************************************************************)
(* enrich_model_designation step by step: the filters, each optional       *)
(* narrowing step, each turn of the loop that halves the power tolerance,  *)
(* and the pick of the designation                                         *)
(***************************************************************************)
EnrichNames ==
  { None, "T1", "Vestas T1", "V90", "Vestas V112", "Vestas V90-3.0", "E82",
    "FO_09001", "Vestas V117-3.45" }

\* additional_data: nothing, or the dimensions of a turbine record
EnrichAdditionalData ==
  { NoData,
    [diameter |-> 90, hub_height |-> 0, power_rating |-> 2000],
    [diameter |-> 0, hub_height |-> 0, power_rating |-> 3450],
    [diameter |-> 0, hub_height |-> 0, power_rating |-> 2000],
    [diameter |-> 86, hub_height |-> 0, power_rating |-> 0],
    [diameter |-> 115, hub_height |-> 0, power_rating |-> 3450],
    [diameter |-> 82, hub_height |-> 0, power_rating |-> 0],
    [diameter |-> 3, hub_height |-> 0, power_rating |-> 0] }

\* lines 300-316: manufacturer, diameter and power of the call
EnrichLocals(data, additional_data) ==
  [ manufacturer |-> data.manufacturer,
    manufacturer_pattern |-> data.manufacturer_pattern,
    diameter |-> IF get_diameter(<<data>>) = 0 THEN get_diameter(<<additional_data>>)
                 ELSE get_diameter(<<data>>),
    power |-> IF get_rated_power_kw(<<data>>) = 0
              THEN get_rated_power_kw(<<additional_data>>)
              ELSE get_rated_power_kw(<<data>>) ]

\* lines 328-366: the rows the three filters leave
EnrichFilters(loc, exact_power_match, filtered) ==
  FilterPower(
    FilterDiameter(
      FilterManufacturer(filtered, loc.manufacturer, loc.manufacturer_pattern),
      loc.diameter),
    loc.power, exact_power_match)

\* lines 300-366: the call up to the end of the filters, or up to the early
\* return when there is nothing to filter on
EnrichEnter(name, additional_data, exact_power_match, filtered, loc) ==
  /\ call_args = NoArgs
  /\ call_args' = [model_designation |-> name, manufacturer |-> loc.manufacturer,
                   manufacturer_pattern |-> loc.manufacturer_pattern, diameter |-> loc.diameter,
                   power |-> loc.power,
                   filtered |-> filtered,
                   additional_data |-> additional_data, exact_power_match |-> exact_power_match]
  /\ call_result' =
       IF loc.manufacturer = None /\ loc.diameter = 0 /\ loc.power = 0
       THEN [step |-> "returned", turbine_types |-> {}, k |-> 0,
             model_designation_enriched |-> name]
       ELSE [step |-> "filtered",
             turbine_types |-> EnrichFilters(loc, exact_power_match, filtered),
             k |-> 0, model_designation_enriched |-> None]
  /\ UNCHANGED << config, writers, loader, match_cache, counters, turbine_counter,
                  turbine, stored, locals, returned, history, pc >>

EnrichBegin(name, additional_data, exact_power_match, filtered) ==
  EnrichEnter(name, additional_data, exact_power_match, filtered,
              EnrichLocals(parse_model_name(name), additional_data))

\* the call is at the given step
EnrichAt(step) == call_args # NoArgs /\ call_result.step = step

\* one step of the call: the next position and the rows that are left
EnrichGoto(step, turbine_types, k) ==
  /\ call_result' = [call_result EXCEPT !.step = step, !.turbine_types = turbine_types,
                                        !.k = k]
  /\ UNCHANGED << call_args, config, writers, loader, match_cache, counters,
                  turbine_counter, turbine, stored, locals, returned, history, pc >>

\* lines 368-373
PositivePowerStep ==
  /\ EnrichAt("filtered")
  /\ EnrichGoto("positive_power", PreferPositivePower(call_result.turbine_types), 0)

\* lines 375-380
WindSpeedStep ==
  /\ EnrichAt("positive_power")
  /\ EnrichGoto("wind_speeds", PreferWindSpeeds(call_result.turbine_types), 0)

\* lines 382-393: the condition is tested once, before the tolerance 3
DiameterStep ==
  \/ /\ EnrichAt("wind_speeds")
     /\ IF Cardinality(call_result.turbine_types) > 1 /\ call_args.diameter # 0
        THEN EnrichGoto("diameter_3",
                        Tighten(call_result.turbine_types, call_args.diameter, 3), 0)
        ELSE EnrichGoto("diameter_done", call_result.turbine_types, 0)
  \/ /\ EnrichAt("diameter_3")
     /\ EnrichGoto("diameter_done",
                   Tighten(call_result.turbine_types, call_args.diameter, 1), 0)

\* the rows within the power tolerance halved once more
HalvePrep == 
  { i \in call_result.turbine_types :
      PowerWithin(Row(i).rated_power, call_args.power, call_result.k + 1) }

\* lines 395-417: the test before the loop, and one turn of the loop; the
\* tolerance is (power / 750 / 100) / 2^k when the loop condition is tested
HalveStep ==
  \/ /\ EnrichAt("diameter_done")
     /\ IF /\ Cardinality(call_result.turbine_types) > 1
           /\ call_args.power > 0
           /\ call_args.exact_power_match
        THEN EnrichGoto("halving", call_result.turbine_types, 0)
        ELSE EnrichGoto("narrowed", call_result.turbine_types, 0)
  \/ /\ EnrichAt("halving")
     /\ IF /\ Cardinality(call_result.turbine_types) > 1
           /\ call_args.power >= 750 * Pow2(call_result.k)
           /\ HalvePrep # {}
        THEN EnrichGoto("halving", HalvePrep, call_result.k + 2)
        ELSE EnrichGoto("narrowed", call_result.turbine_types, call_result.k)

\* lines 419-491
PickStep ==
  /\ EnrichAt("narrowed")
  /\ call_result' =
       [call_result EXCEPT
          !.step = "returned",
          !.model_designation_enriched =
            PickDesignation(call_result.turbine_types, call_args.model_designation,
                            call_args.power, call_args.exact_power_match)]
  /\ UNCHANGED << call_args, config, writers, loader, match_cache, counters,
                  turbine_counter, turbine, stored, locals, returned, history, pc >>

\* the steps of a call that has begun
EnrichStep ==
  \/ PositivePowerStep
  \/ WindSpeedStep
  \/ DiameterStep
  \/ HalveStep
  \/ PickStep

EnrichNext ==
  \/ \E name \in EnrichNames, additional_data \in EnrichAdditionalData,
        exact_power_match \in BOOLEAN, filtered \in BOOLEAN :
       EnrichBegin(name, additional_data, exact_power_match, filtered)
  \/ EnrichStep

EnrichSpec == CallInit /\ [][EnrichNext]_vars

\* the call has returned
EnrichReturned == EnrichAt("returned")

\* the steps agree with the call taken as a whole
StepsAgreeWithCall ==
  EnrichReturned =>
    call_result.model_designation_enriched =
      enrich_model_designation(call_args.model_designation, call_args.additional_data,
                               call_args.exact_power_match,
                               call_args.filtered).model_designation

\* the call has something to filter on
HasCriterion ==
  call_args.manufacturer # None \/ call_args.diameter # 0 \/ call_args.power # 0

\* the rows that survive the manufacturer, diameter and power filters
Survivors ==
  EnrichFilters([manufacturer |-> call_args.manufacturer,
                 manufacturer_pattern |-> call_args.manufacturer_pattern,
                 diameter |-> call_args.diameter, power |-> call_args.power],
                call_args.exact_power_match, call_args.filtered)

\* C28: enrich_model_designation returns its input designation or the
\* designation of a catalog entry that survived the filters; without a filter
\* criterion, and when the filters leave no candidate, it returns the input
\* unchanged instead of raising; a returned designation that differs from the
\* input is never one of the reserved FO_<digits> placeholders.
EnrichedFromSurvivorsOrUnchanged ==
  EnrichReturned =>
    /\ \/ call_result.model_designation_enriched = call_args.model_designation
       \/ /\ HasCriterion
          /\ \E i \in Survivors \cap call_result.turbine_types :
               Row(i).model_designation = call_result.model_designation_enriched
    /\ (~HasCriterion \/ Survivors = {}) =>
         call_result.model_designation_enriched = call_args.model_designation
    /\ call_result.model_designation_enriched # call_args.model_designation =>
         ~IsPlaceholder(call_result.model_designation_enriched)

\* a call that returned the designation of one of several surviving entries,
\* in a view of the catalog that holds a placeholder entry
EnrichedToSurvivingEntry ==
  /\ EnrichReturned
  /\ ~call_args.filtered
  /\ Cardinality(Survivors) > 1
  /\ call_result.model_designation_enriched # call_args.model_designation
  /\ call_result.model_designation_enriched # None

\* a call that returned its input because the filters left no candidate
UnchangedOnZeroCandidates ==
  /\ EnrichReturned
  /\ HasCriterion
  /\ Survivors = {}
  /\ call_result.model_designation_enriched = call_args.model_designation

\* the positions of the optional narrowing steps
NarrowingSteps == { "filtered", "positive_power", "wind_speeds", "diameter_3",
                    "diameter_done", "halving" }

\* a narrowing step keeps candidates, and keeps one if there was one
KeepsCandidates ==
  /\ call_result'.turbine_types \subseteq call_result.turbine_types
  /\ call_result.turbine_types # {} => call_result'.turbine_types # {}

\* a turn of the halving loop leaves the loop, or it found the tolerance
\* (power / 750 / 100) / 2^k at or above one percent and goes on with a
\* quarter of it: the turns of one call are bounded by its power
HalvingAdvances ==
  EnrichAt("halving") =>
    \/ call_result'.step = "narrowed"
    \/ /\ call_result'.step = "halving"
       /\ call_args.power >= 750 * Pow2(call_result.k)
       /\ call_result'.k = call_result.k + 2

\* where the call is and the rows it holds; nothing before the call
EnrichPosition ==
  IF call_args = NoArgs THEN << >>
  ELSE << call_result.step, call_result.turbine_types, call_result.k >>

\* C29: the optional narrowing steps of enrich_model_designation (positive
\* rated power, wind-speed data, diameter tolerance 3 then 1, halved power
\* tolerances) never turn a non-empty candidate set into an empty one, and the
\* loop that halves the power tolerance terminates: every turn that does not
\* leave the loop quarters a tolerance that was still at or above one percent.
NarrowingKeepsCandidatesAndEnds ==
  [][(call_args # NoArgs /\ call_result.step \in NarrowingSteps)
       => (KeepsCandidates /\ HalvingAdvances)]_EnrichPosition

\* a call that went twice round the halving loop with several candidates, and
\* whose stricter diameter tolerance was skipped because no row met it
HalvedTwice ==
  /\ EnrichAt("narrowed")
  /\ call_result.k = 4
  /\ Cardinality(call_result.turbine_types) > 1

\* a call whose stricter diameter tolerances would have left no candidate
StricterDiameterSkipped ==
  /\ EnrichAt("diameter_done")
  /\ call_args.diameter # 0
  /\ Cardinality(call_result.turbine_types) > 1
  /\ \A i \in call_result.turbine_types :
       Abs(Row(i).diameter - call_args.diameter) >= 3

====
